---- MODULE Spec2Model ----
(***************************************************************************)
(* Model of the Meri bot: the process-wide command lock and its hooks      *)
(* (Meri_Bot.py), the per-user memory store (Meri_Bot.py), the voice       *)
(* connection handler (voice_handler.py) and the music scheduler           *)
(* (voice.py).                                                             *)
(***************************************************************************)
EXTENDS Integers, Sequences, FiniteSets, TLC

VARIABLES
    lockLocked,     \* _COMMAND_LOCK._locked
    lockWaiters,    \* _COMMAND_LOCK._waiters: invocations queued in acquire(), FIFO
    lockWoken,      \* waiters whose future release() has completed
    pc,             \* position of each command invocation
    err,            \* the error an invocation hands to on_command_error
    userMemory,     \* _user_memory: user id -> list of turns
    calls,          \* history: the turns passed to _remember per user since the last clear
    ctx,            \* the context of each invocation: command, guild, the author's channel
    voiceLocks,     \* _VOICE_LOCKS: guild id -> locked()
    voiceClient,    \* guild.voice_client: the channel connected to, or NoChannel
    jpc,            \* position inside join_voice_channel / raw_voice_join
    attempt,        \* the loop variable of join_voice_channel
    result,         \* what attempt_voice_connection returned
    lastError,      \* the exception the last connect raised, if any
    joinLog,        \* history of each join: attempts made, delays slept, cleanups, outcome
    musicQueues,    \* _MUSIC_QUEUES: guild id -> list of songs
    musicState,     \* _MUSIC_STATE: guild id -> {current_song, loop}
    connected,      \* whether the guild's voice client is connected
    player,         \* the voice client's audio player: its song, and whether it is paused
    ended,          \* players that ended and whose after callback has not run yet
    tasks,          \* scheduled _play_next_song tasks that have not run yet
    mcmd,           \* the music command being executed, if it is suspended
    songs,          \* history: how many songs the play command has enqueued
    last,           \* history: the last music step, and what its play-next did or
                    \* why the player of its callback ended
    sumValue,       \* free slots of the sum command's concurrency guard
    sumWaiters,     \* sum invocations queued on the guard
    sumWoken,       \* queued sum invocations whose future has been completed
    userContext,    \* _user_context: user id -> last response
    lastClear,      \* history: the last clearcontext invocation and its reply
    reason,         \* the reason command's invocation: its inputs and locals
    sender,         \* a _send_limited call: its text and the messages it sent
    volumes,        \* the 'volume' key of _MUSIC_STATE, the playing source's volume
                    \* and the last volume command with its reply
    search,         \* a _ddg_search call: its query, what the search interfaces
                    \* do, the calls made to them and what the helper returned
    handler,        \* on_message for one message: the message, the handler's
                    \* position and locals, and how it ended
    chat            \* an lm, sum or vis invocation from its chat request on:
                    \* the response, its cleaned form and what was sent

cmdVars == <<lockLocked, lockWaiters, lockWoken, pc, err, ctx>>

memVars == <<userMemory, calls>>

voiceVars == <<voiceLocks, voiceClient, jpc, attempt, result, lastError, joinLog>>

musicVars == <<musicQueues, musicState, connected, player, ended, tasks, mcmd, songs,
               last>>

sumVars == <<sumValue, sumWaiters, sumWoken>>

contextVars == <<userContext, lastClear>>

reasonVars == <<reason, sender>>

restVars == <<volumes, search, handler, chat>>

(***************************************************************************)
(* The limited sender                                                      *)
(***************************************************************************)

\* chunk_size
ChunkSize == 1900

\* max_posts
MaxPosts == 5

\* the longest content the platform accepts in one message
MAX_MESSAGE_LENGTH == 2000

\* a text of n characters is known by its positions 1..n; a piece of a message
\* is a slice text[from..to], a newline or a code fence
Slice(from, to) == [piece |-> "text", from |-> from, to |-> to]

Newline == [piece |-> "newline", from |-> 0, to |-> 0]

\* the three backticks that open and close a code block
Fence == [piece |-> "fence", from |-> 0, to |-> 0]

PieceLen(p) ==
    IF p.piece = "text" THEN p.to - p.from + 1
    ELSE IF p.piece = "fence" THEN 3
    ELSE 1

RECURSIVE ContentLen(_)
ContentLen(content) ==
    IF content = <<>> THEN 0 ELSE PieceLen(Head(content)) + ContentLen(Tail(content))

\* chunk_text: [text[i:i+chunk_size] for i in range(0, len(text), chunk_size)]
ChunkCount(n) == (n + ChunkSize - 1) \div ChunkSize

ChunkText(n) ==
    [i \in 1..ChunkCount(n) |->
        <<Slice((i - 1) * ChunkSize + 1,
                IF i * ChunkSize < n THEN i * ChunkSize ELSE n)>>]

\* "\n".join(tail)
RECURSIVE JoinLines(_)
JoinLines(chunks) ==
    IF chunks = <<>> THEN <<>>
    ELSE IF Len(chunks) = 1 THEN chunks[1]
    ELSE chunks[1] \o <<Newline>> \o JoinLines(Tail(chunks))

\* a merge that keeps the head and forgets the tail
MergeOverflowDropsTail(chunks) ==
    IF Len(chunks) > MaxPosts THEN SubSeq(chunks, 1, MaxPosts) ELSE chunks

\* head[-1] += "\n" + "\n".join(tail) when there are more than max_posts chunks
MergeOverflow(chunks) ==
    IF Len(chunks) > MaxPosts
    THEN LET head == SubSeq(chunks, 1, MaxPosts)
             tail == SubSeq(chunks, MaxPosts + 1, Len(chunks))
         IN  [head EXCEPT ![MaxPosts] = @ \o <<Newline>> \o JoinLines(tail)]
    ELSE chunks

\* the chunk between two code fences
Fenced(chunk) == <<Fence>> \o chunk \o <<Fence>>

\* the contents _send_limited passes to ctx.send, in order
LimitedContents(n) ==
    LET chunks == MergeOverflow(ChunkText(n))
    IN  [i \in 1..Len(chunks) |-> Fenced(chunks[i])]

\* ctx.send delivers a content the platform accepts and raises on any other
Deliverable(content) == ContentLen(content) <= MAX_MESSAGE_LENGTH

\* the messages delivered before the first ctx.send that raises
RECURSIVE DeliveredPrefix(_)
DeliveredPrefix(contents) ==
    IF contents = <<>> \/ ~Deliverable(Head(contents)) THEN <<>>
    ELSE <<Head(contents)>> \o DeliveredPrefix(Tail(contents))

\* _send_limited(ctx, text): what it passed to ctx.send, what was delivered
\* and whether a ctx.send raised
SendLimitedResult(n) ==
    LET contents == LimitedContents(n)
        delivered == DeliveredPrefix(contents)
    IN  [contents |-> SubSeq(contents, 1,
                             IF Len(delivered) < Len(contents)
                             THEN Len(delivered) + 1 ELSE Len(contents)),
         delivered |-> delivered,
         raised |-> Len(delivered) < Len(contents)]

SenderIdle == [pc |-> "idle", n |-> 0, contents |-> <<>>, delivered |-> <<>>,
               raised |-> FALSE]

\* no reason command has been invoked
ReasonIdle ==
    [pc |-> "idle", author |-> 0, prompt |-> <<>>, has_attachments |-> FALSE,
     is_reply |-> FALSE, mode |-> "none", cleaned |-> <<>>, search_terms |-> <<>>,
     searches |-> <<>>, final_prompt |-> <<>>, response |-> <<>>,
     accumulated |-> <<>>, notices |-> <<>>, sent |-> <<>>, outcome |-> "none"]

\* no volume has been stored and no volume command has been given
VolumesIdle ==
    [stored |-> <<>>, source |-> <<>>, last |-> [guild |-> 0, volume |-> 0, reply |-> "none"]]

\* no search has been made
SearchIdle == [pc |-> "idle", query |-> <<>>, env |-> <<>>, calls |-> <<>>,
               result |-> "pending"]

\* no message has arrived
HandlerIdle ==
    [pc |-> "idle", received |-> <<>>, content |-> <<>>, original_content |-> <<>>,
     own |-> FALSE, has_reference |-> FALSE, reply_to_bot |-> FALSE,
     mentioned |-> FALSE, rewritten |-> FALSE, outcome |-> "none"]

\* no lm, sum or vis command has been invoked
ChatIdle ==
    [pc |-> "idle", command |-> "none", author |-> 0, response |-> <<>>,
     accumulated |-> <<>>, sent |-> <<>>, notices |-> <<>>, outcome |-> "none"]

RestInit ==
    /\ volumes = VolumesIdle
    /\ search = SearchIdle
    /\ handler = HandlerIdle
    /\ chat = ChatIdle

vars == <<lockLocked, lockWaiters, lockWoken, pc, err, userMemory, calls,
          ctx, voiceLocks, voiceClient, jpc, attempt, result, lastError, joinLog,
          musicQueues, musicState, connected, player, ended, tasks, mcmd, songs, last,
          sumValue, sumWaiters, sumWoken, userContext, lastClear, reason,
          sender, volumes, search, handler, chat>>

(***************************************************************************)
(* Bounds                                                                  *)
(***************************************************************************)
NCmds == 3

Cmds == 1..NCmds

\* number of _remember calls explored
MaxCalls == 12

\* songs the play command enqueues in all
MaxSongs == 3

\* after callbacks and play-next tasks that may be pending at once
MaxPending == 2

\* length of the prompts given to the reason command's flag parser
MaxPromptLen == 7

\* length of the texts given to the limited sender
MaxTextLen == 11500

\* length of the chat responses the reason command receives
MaxResponseLen == 3

\* length of the message contents given to the message handler
MaxContentLen == 3

\* how far outside 0..100 the integers given to the volume command reach
VolumeMargin == 3

(***************************************************************************)
(* Command dispatch, the before/after hooks and the error handler          *)
(***************************************************************************)

\* errors raised before the before-invoke hook runs (unknown command, argument
\* parsing, failed check or conversion), and the error of a raising body
PreErrors == {"CommandNotFound", "MissingRequiredArgument", "CheckFailure"}

NoError == "none"

NoChannel == "none"

Guilds == {1, 2}

Channels == {"A", "B"}

\* the context of an invocation: the command, its guild and the voice channel
\* the author is in
NoCtx == [command |-> "none", guild |-> 1, channel |-> NoChannel]

Contexts(commands) ==
    [command : commands, guild : Guilds, channel : Channels \cup {NoChannel}]

\* commands whose body is not modelled step by step
PlainContexts == {[command |-> "other", guild |-> 1, channel |-> NoChannel]}

nonCmdVars == <<userMemory, calls, voiceLocks, voiceClient, jpc, attempt, result,
                lastError, joinLog, musicVars, sumVars, contextVars, reasonVars, restVars>>

\* asyncio.Lock.release as the hooks call it: guarded by locked(); clears
\* _locked and completes the first waiter's future
ReleaseIfLocked ==
    IF lockLocked
    THEN /\ lockLocked' = FALSE
         /\ lockWoken' = IF lockWaiters # <<>>
                         THEN lockWoken \cup {Head(lockWaiters)}
                         ELSE lockWoken
         /\ UNCHANGED lockWaiters
    ELSE UNCHANGED <<lockLocked, lockWaiters, lockWoken>>

\* an after-invoke hook that leaves the lock alone
QueueAfterInvokeNoRelease == UNCHANGED <<lockLocked, lockWaiters, lockWoken>>

\* _queue_after_invoke: if _COMMAND_LOCK.locked(): _COMMAND_LOCK.release()
QueueAfterInvoke == ReleaseIfLocked

\* _queue_before_invoke: await _COMMAND_LOCK.acquire().  The fast path takes
\* the lock when it is free and nobody is queued; otherwise the invocation
\* queues behind the others.
QueueBeforeInvoke(c) ==
    IF ~lockLocked /\ lockWaiters = <<>>
    THEN /\ lockLocked' = TRUE
         /\ pc' = [pc EXCEPT ![c] = "body"]
         /\ UNCHANGED <<lockWaiters, lockWoken>>
    ELSE /\ lockWaiters' = Append(lockWaiters, c)
         /\ pc' = [pc EXCEPT ![c] = "waiting"]
         /\ UNCHANGED <<lockLocked, lockWoken>>

\* on_message -> process_commands: a message is dispatched as its own task.
\* An invocation that fails before the hook goes to the error handler, which
\* the framework schedules as a separate task.
ProcessCommands(c, e, k) ==
    /\ pc[c] = "idle"
    /\ ctx' = [ctx EXCEPT ![c] = k]
    /\ IF e # NoError
       THEN /\ pc' = [pc EXCEPT ![c] = "error"]
            /\ err' = [err EXCEPT ![c] = e]
            /\ UNCHANGED <<lockLocked, lockWaiters, lockWoken>>
       ELSE /\ QueueBeforeInvoke(c)
            /\ UNCHANGED err
    /\ UNCHANGED nonCmdVars

\* the resumption of acquire() after release() completed the waiter's future
LockAcquired(c) ==
    /\ pc[c] = "waiting"
    /\ c \in lockWoken
    /\ lockWaiters' = SelectSeq(lockWaiters, LAMBDA w : w # c)
    /\ lockWoken' = lockWoken \ {c}
    /\ lockLocked' = TRUE
    /\ pc' = [pc EXCEPT ![c] = "body"]
    /\ UNCHANGED <<err, ctx, nonCmdVars>>

\* the command body returns; the after-invoke hook runs in the same step
CommandReturns(c) ==
    /\ pc[c] = "body"
    /\ ctx[c].command = "other"
    /\ QueueAfterInvoke
    /\ pc' = [pc EXCEPT ![c] = "done"]
    /\ UNCHANGED <<err, ctx, nonCmdVars>>

\* the command body raises; the after-invoke hook runs (finally), then the
\* framework schedules on_command_error as a task of its own
CommandRaises(c) ==
    /\ pc[c] = "body"
    /\ ctx[c].command = "other"
    /\ QueueAfterInvoke
    /\ pc' = [pc EXCEPT ![c] = "error"]
    /\ err' = [err EXCEPT ![c] = "CommandInvokeError"]
    /\ UNCHANGED <<ctx, nonCmdVars>>

\* on_command_error: unknown command and missing argument return early; every
\* other error releases the lock when it is locked
OnCommandError(c) ==
    /\ pc[c] = "error"
    /\ IF err[c] \in {"CommandNotFound", "MissingRequiredArgument"}
       THEN UNCHANGED <<lockLocked, lockWaiters, lockWoken>>
       ELSE ReleaseIfLocked
    /\ pc' = [pc EXCEPT ![c] = "done"]
    /\ UNCHANGED <<err, ctx, nonCmdVars>>

CmdInit ==
    /\ lockLocked = FALSE
    /\ lockWaiters = <<>>
    /\ lockWoken = {}
    /\ pc = [c \in Cmds |-> "idle"]
    /\ err = [c \in Cmds |-> NoError]
    /\ ctx = [c \in Cmds |-> NoCtx]

CmdNext ==
    \/ \E c \in Cmds, e \in PreErrors \cup {NoError}, k \in PlainContexts :
           ProcessCommands(c, e, k)
    \/ \E c \in Cmds : LockAcquired(c)
    \/ \E c \in Cmds : CommandReturns(c)
    \/ \E c \in Cmds : CommandRaises(c)
    \/ \E c \in Cmds : OnCommandError(c)

(***************************************************************************)
(* The sum command and its concurrency guard                               *)
(***************************************************************************)

\* @commands.max_concurrency(1, per=BucketType.default, wait=True)
SumConcurrency == 1

nonSumVars == <<memVars, voiceLocks, voiceClient, jpc, attempt, result, lastError,
                joinLog, musicVars, contextVars, reasonVars, restVars>>

SumContext == [command |-> "sum", guild |-> 1, channel |-> NoChannel]

\* a guard that lets every invocation through
SumSlotFreeAlways == TRUE

\* the guard has a free slot
SumSlotFree == sumValue > 0

\* the guarded invocation, once it has its slot: the before-invoke hook
SumEnter(c) ==
    /\ sumValue' = sumValue - 1
    /\ QueueBeforeInvoke(c)

\* the sum command is dispatched: with wait=True an invocation that finds no
\* free slot queues on the guard, otherwise it takes the slot and goes on to
\* the before-invoke hook
SumDispatch(c) ==
    /\ pc[c] = "idle"
    /\ ctx' = [ctx EXCEPT ![c] = SumContext]
    /\ IF SumSlotFree
       THEN /\ SumEnter(c)
            /\ UNCHANGED <<sumWaiters, sumWoken>>
       ELSE /\ sumWaiters' = Append(sumWaiters, c)
            /\ pc' = [pc EXCEPT ![c] = "sum_waiting"]
            /\ UNCHANGED <<sumValue, sumWoken, lockLocked, lockWaiters, lockWoken>>
    /\ UNCHANGED <<err, nonSumVars>>

\* a queued invocation resumes: it takes the slot if one is free, and queues
\* again if another invocation took it first
SumResumes(c) ==
    /\ pc[c] = "sum_waiting"
    /\ c \in sumWoken
    /\ sumWoken' = sumWoken \ {c}
    /\ IF SumSlotFree
       THEN /\ SumEnter(c)
            /\ UNCHANGED sumWaiters
       ELSE /\ sumWaiters' = Append(sumWaiters, c)
            /\ UNCHANGED <<sumValue, pc, lockLocked, lockWaiters, lockWoken>>
    /\ UNCHANGED <<err, ctx, nonSumVars>>

\* the guard's release: the slot is returned and the first queued invocation
\* has its future completed
SumRelease ==
    /\ sumValue' = sumValue + 1
    /\ IF sumWaiters # <<>>
       THEN /\ sumWoken' = sumWoken \cup {Head(sumWaiters)}
            /\ sumWaiters' = Tail(sumWaiters)
       ELSE UNCHANGED <<sumWaiters, sumWoken>>

\* the body of summarize_url ends, by return or by exception: the guard is
\* released and the after-invoke hook runs
SummarizeUrlEnds(c, raised) ==
    /\ pc[c] = "body"
    /\ ctx[c].command = "sum"
    /\ SumRelease
    /\ QueueAfterInvoke
    /\ IF raised
       THEN /\ pc' = [pc EXCEPT ![c] = "error"]
            /\ err' = [err EXCEPT ![c] = "CommandInvokeError"]
       ELSE /\ pc' = [pc EXCEPT ![c] = "done"]
            /\ UNCHANGED err
    /\ UNCHANGED <<ctx, nonSumVars>>

SumInit ==
    /\ sumValue = SumConcurrency
    /\ sumWaiters = <<>>
    /\ sumWoken = {}

SumNext ==
    \/ \E c \in Cmds : SumDispatch(c)
    \/ \E c \in Cmds : SumResumes(c)
    \/ \E c \in Cmds, raised \in BOOLEAN : SummarizeUrlEnds(c, raised)
    \/ \E c \in Cmds, e \in {NoError, "CheckFailure"}, k \in PlainContexts :
           ProcessCommands(c, e, k)
    \/ \E c \in Cmds : LockAcquired(c)
    \/ \E c \in Cmds : CommandReturns(c)
    \/ \E c \in Cmds : OnCommandError(c)

(***************************************************************************)
(* Per-user memory store                                                   *)
(***************************************************************************)

MEMORY_TURNS == 5

nonMemVars == <<cmdVars, voiceVars, musicVars, sumVars, userContext, reasonVars, restVars>>

\* no clearcontext invocation has replied since the last change of the store
NoClear == [author |-> 0, user_id |-> 0, reply |-> "none"]

\* user ids as Python sees them: an int, or a value of another type
IsInt(user_id) == user_id.int

UserIds == {1, 2}

ValidRoles == {"user", "assistant", "system"}

\* str() of a small non-negative integer
DecimalText(n) == <<"0", "1", "2", "3", "4", "5", "6", "7", "8", "9">>[n + 1]

\* content values as Python sees them: a str, or a number that str() converts
ContentText(content) == IF content.str THEN content.text ELSE DecimalText(content.num)

\* del history[0:excess] with excess = len(history) - MEMORY_TURNS * 2
TrimKeepOldest(history) ==
    LET excess == Len(history) - MEMORY_TURNS * 2
    IN  IF excess > 0 THEN SubSeq(history, 1, Len(history) - excess) ELSE history

TrimHistory(history) ==
    LET excess == Len(history) - MEMORY_TURNS * 2
    IN  IF excess > 0 THEN SubSeq(history, excess + 1, Len(history)) ELSE history

\* the turn _remember stores: an unknown role becomes "user", a non-str
\* content becomes its str()
StoredTurn(role, content) ==
    [role |-> IF role \in ValidRoles THEN role ELSE "user",
     content |-> ContentText(content)]

MemoryOf(u) == IF u \in DOMAIN userMemory THEN userMemory[u] ELSE <<>>

CallsOf(u) == IF u \in DOMAIN calls THEN calls[u] ELSE <<>>

TotalCalls == LET RECURSIVE Sum(_)
                  Sum(S) == IF S = {} THEN 0
                            ELSE LET u == CHOOSE x \in S : TRUE
                                 IN  Len(calls[u]) + Sum(S \ {u})
              IN  Sum(DOMAIN calls)

\* _remember(user_id, role, content)
Remember(user_id, role, content) ==
    /\ TotalCalls < MaxCalls
    /\ IF ~IsInt(user_id)
       THEN UNCHANGED <<userMemory, calls>>
       ELSE LET turn == StoredTurn(role, content)
                history == Append(MemoryOf(user_id.id), turn)
            IN  /\ userMemory' = [u \in DOMAIN userMemory \cup {user_id.id} |->
                                    IF u = user_id.id THEN TrimHistory(history)
                                    ELSE userMemory[u]]
                /\ calls' = [u \in DOMAIN calls \cup {user_id.id} |->
                               IF u = user_id.id THEN Append(CallsOf(u), turn)
                               ELSE calls[u]]
    /\ lastClear' = NoClear
    /\ UNCHANGED nonMemVars

\* _clear_user_memory(user_id)
ClearUserMemory(user_id) ==
    /\ IsInt(user_id)
    /\ user_id.id \in DOMAIN userMemory
    /\ userMemory' = [u \in DOMAIN userMemory \ {user_id.id} |-> userMemory[u]]
    /\ calls' = [u \in DOMAIN calls \ {user_id.id} |-> calls[u]]
    /\ lastClear' = NoClear
    /\ UNCHANGED nonMemVars

\* the calls explored: the id, role and content kinds _remember distinguishes
RememberInputs ==
    { <<[int |-> TRUE, id |-> 1], "assistant", [str |-> TRUE, text |-> "a"]>>,
      <<[int |-> TRUE, id |-> 1], "narrator", [str |-> FALSE, num |-> 7]>>,
      <<[int |-> TRUE, id |-> 2], "user", [str |-> TRUE, text |-> "b"]>>,
      <<[int |-> FALSE, id |-> "1"], "user", [str |-> TRUE, text |-> "a"]>> }

MemInit ==
    /\ userMemory = <<>>
    /\ calls = <<>>
    /\ userContext = <<>>
    /\ lastClear = NoClear

MemNext ==
    \/ \E i \in RememberInputs : Remember(i[1], i[2], i[3])
    \/ \E u \in UserIds : ClearUserMemory([int |-> TRUE, id |-> u])

\* the users bot.is_owner accepts
OwnerIds == {1}

\* an owner check that accepts everybody
IsOwnerAlways(author) == TRUE

\* await bot.is_owner(ctx.author)
IsOwner(author) == author \in OwnerIds

\* clearcontext without an argument: user_id is None
NoUserId == 0

\* _set_user_context(user_id, content), as the chat commands call it with the
\* author's id after a response
SetUserContext(user_id, content) ==
    /\ userContext' = [u \in DOMAIN userContext \cup {user_id} |->
                          IF u = user_id THEN content ELSE userContext[u]]
    /\ lastClear' = NoClear
    /\ UNCHANGED <<memVars, cmdVars, voiceVars, musicVars, sumVars, reasonVars, restVars>>

\* clear_context_admin: naming another user is refused unless the author is an
\* owner; otherwise _clear_user_context and _clear_user_memory of the target
ClearContextAdmin(author, user_id) ==
    IF user_id # NoUserId /\ user_id # author /\ ~IsOwner(author)
    THEN /\ lastClear' = [author |-> author, user_id |-> user_id, reply |-> "denied"]
         /\ UNCHANGED <<userContext, memVars, cmdVars, voiceVars, musicVars, sumVars,
                        reasonVars, restVars>>
    ELSE LET is_clearing_other == user_id # NoUserId /\ user_id # author
             target_user_id == IF is_clearing_other THEN user_id ELSE author
         IN  /\ userContext' = [u \in DOMAIN userContext \ {target_user_id} |->
                                   userContext[u]]
             /\ userMemory' = [u \in DOMAIN userMemory \ {target_user_id} |->
                                  userMemory[u]]
             /\ calls' = [u \in DOMAIN calls \ {target_user_id} |-> calls[u]]
             /\ lastClear' = [author |-> author, user_id |-> user_id,
                              reply |-> IF is_clearing_other THEN "cleared_other"
                                        ELSE "cleared_own"]
             /\ UNCHANGED <<cmdVars, voiceVars, musicVars, sumVars, reasonVars, restVars>>

\* the turns and responses explored around clearcontext
ContextInputs ==
    { <<[int |-> TRUE, id |-> 1], "user", [str |-> TRUE, text |-> "a"]>>,
      <<[int |-> TRUE, id |-> 2], "assistant", [str |-> TRUE, text |-> "b"]>> }

ContextNext ==
    \/ \E i \in ContextInputs : Remember(i[1], i[2], i[3])
    \/ \E u \in UserIds, content \in {"a", "b"} : SetUserContext(u, content)
    \/ \E author \in UserIds, user_id \in UserIds \cup {NoUserId} :
           ClearContextAdmin(author, user_id)

(***************************************************************************)
(* Music queue and playback scheduler                                      *)
(***************************************************************************)

nonMusicVars == <<cmdVars, memVars, voiceVars, sumVars, contextVars, reasonVars, restVars>>

MusicGuilds == {1}

\* None, as the value of current_song and of an idle player
NoSong == 0

QueueOf(g) == IF g \in DOMAIN musicQueues THEN musicQueues[g] ELSE <<>>

\* _MUSIC_STATE.get(guild_id, {}).get('current_song')
CurrentSong(g) == IF g \in DOMAIN musicState THEN musicState[g].current_song ELSE NoSong

\* _MUSIC_STATE.get(guild_id, {}).get('loop', False)
LoopMode(g) == g \in DOMAIN musicState /\ musicState[g].loop

\* voice_client.is_playing() and voice_client.is_paused()
IsPlaying(g) == player[g].song # NoSong /\ ~player[g].paused

IsPaused(g) == player[g].song # NoSong /\ player[g].paused

NoPlayer == [song |-> NoSong, paused |-> FALSE]

\* a scheduler that never records the song it starts
SetCurrentSongNever(g, song, create) == musicState

\* a scheduler that records the song it starts and never clears it
SetCurrentSongNeverClears(g, song, create) ==
    IF song = NoSong
    THEN musicState
    ELSE [x \in DOMAIN musicState \cup {g} |->
             IF x = g THEN [current_song |-> song, loop |-> LoopMode(g)]
             ELSE musicState[x]]

\* _MUSIC_STATE[guild_id]['current_song'] = song, creating the dict when asked
SetCurrentSong(g, song, create) ==
    IF g \in DOMAIN musicState
    THEN [musicState EXCEPT ![g].current_song = song]
    ELSE IF create
    THEN [x \in DOMAIN musicState \cup {g} |->
             IF x = g THEN [current_song |-> song, loop |-> FALSE] ELSE musicState[x]]
    ELSE musicState

\* history: the callbacks still pending when stop or leave is issued belong
\* to playback that the user has ended with that command
Cancelled(g, cause) ==
    [j \in DOMAIN ended |->
        IF ended[j].guild = g THEN [ended[j] EXCEPT !.cause = cause] ELSE ended[j]]

\* voice_client.stop(): the player is dropped and its thread will call after
StoppedPlayers(g, pending, cause) ==
    IF player[g].song # NoSong
    THEN Append(pending, [guild |-> g, song |-> player[g].song, error |-> FALSE,
                          cause |-> cause])
    ELSE pending

\* a play-next that forgets the song it could not start and schedules nothing
RescheduleNever(left) == left

\* asyncio.create_task(_play_next_song(...)) after a failed start
Reschedule(left) == left + 1

\* _play_next_song: an empty queue clears current_song; otherwise the head is
\* popped, the source is built (which may raise), current_song is set and
\* voice_client.play is called, which raises when the client is not connected
\* or is already playing.  A failure schedules another play-next task.
PlayNextSong(g, srcOk, left, caller) ==
    IF QueueOf(g) = <<>>
    THEN /\ musicState' = SetCurrentSong(g, NoSong, FALSE)
         /\ tasks' = left
         /\ last' = <<caller, "empty">>
         /\ UNCHANGED <<musicQueues, player>>
    ELSE LET next_song == Head(musicQueues[g])
         IN  /\ musicQueues' = [musicQueues EXCEPT ![g] = Tail(@)]
             /\ IF ~srcOk
                THEN /\ tasks' = Reschedule(left)
                     /\ last' = <<caller, "failed">>
                     /\ UNCHANGED <<musicState, player>>
                ELSE /\ musicState' = SetCurrentSong(g, next_song, TRUE)
                     /\ IF connected[g] /\ ~IsPlaying(g)
                        THEN /\ player' = [player EXCEPT ![g] =
                                              [song |-> next_song, paused |-> FALSE]]
                             /\ tasks' = left
                             /\ last' = <<caller, "started">>
                        ELSE /\ tasks' = Reschedule(left)
                             /\ last' = <<caller, "failed">>
                             /\ UNCHANGED player

\* play_music up to the point where the songs are in the queue
PlayMusicEnqueue(g, n) ==
    /\ mcmd = "idle"
    /\ connected[g]
    /\ songs + n <= MaxSongs
    /\ musicQueues' = [x \in DOMAIN musicQueues \cup {g} |->
                          IF x = g
                          THEN QueueOf(g) \o [i \in 1..n |-> songs + i]
                          ELSE musicQueues[x]]
    /\ songs' = songs + n
    /\ mcmd' = "play_added"
    /\ UNCHANGED <<musicState, connected, player, ended, tasks, nonMusicVars>>
    /\ last' = <<"PlayMusicEnqueue", "">>

\* play_music after the queue message: start playing if nothing is playing
PlayMusicStart(g, srcOk) ==
    /\ mcmd = "play_added"
    /\ tasks < MaxPending
    /\ IF ~IsPlaying(g) /\ ~IsPaused(g)
       THEN PlayNextSong(g, srcOk, tasks, "PlayMusicStart")
       ELSE /\ last' = <<"PlayMusicStart", "busy">>
            /\ UNCHANGED <<musicQueues, musicState, player, tasks>>
    /\ mcmd' = "idle"
    /\ UNCHANGED <<connected, ended, songs, nonMusicVars>>

\* a scheduled _play_next_song task runs
PlayNextTask(g, srcOk) ==
    /\ tasks > 0
    /\ PlayNextSong(g, srcOk, tasks - 1, "PlayNextTask")
    /\ UNCHANGED <<connected, ended, mcmd, songs, nonMusicVars>>

\* the player reaches the end of its source, or fails while reading it
SongEnds(g, error) ==
    /\ IsPlaying(g)
    /\ Len(ended) < MaxPending
    /\ ended' = Append(ended, [guild |-> g, song |-> player[g].song, error |-> error,
                               cause |-> "finished"])
    /\ player' = [player EXCEPT ![g] = NoPlayer]
    /\ UNCHANGED <<musicQueues, musicState, connected, tasks, mcmd, songs, nonMusicVars>>
    /\ last' = <<"SongEnds", "">>

\* the pending callbacks without the one that runs
RemoveAt(s, i) == [j \in 1..(Len(s) - 1) |-> IF j < i THEN s[j] ELSE s[j + 1]]

\* after_playing: with loop mode on and a current song, the current song goes
\* back to the front of the queue; then the next play-next task is scheduled
AfterPlaying(i) ==
    /\ i \in 1..Len(ended)
    /\ tasks < MaxPending
    /\ LET g == ended[i].guild
       IN  musicQueues' =
               IF LoopMode(g) /\ musicState[g].current_song # NoSong
               THEN [x \in DOMAIN musicQueues \cup {g} |->
                        IF x = g THEN <<musicState[g].current_song>> \o QueueOf(g)
                        ELSE musicQueues[x]]
               ELSE musicQueues
    /\ ended' = RemoveAt(ended, i)
    /\ tasks' = tasks + 1
    /\ UNCHANGED <<musicState, connected, player, mcmd, songs, nonMusicVars>>
    /\ last' = <<"AfterPlaying", ended[i].cause>>

\* skip_song
SkipSong(g) ==
    /\ mcmd = "idle"
    /\ connected[g] /\ IsPlaying(g)
    /\ Len(ended) < MaxPending
    /\ ended' = StoppedPlayers(g, ended, "skipped")
    /\ player' = [player EXCEPT ![g] = NoPlayer]
    /\ UNCHANGED <<musicQueues, musicState, connected, tasks, mcmd, songs, nonMusicVars>>
    /\ last' = <<"SkipSong", "">>

\* pause_song and resume_song
PauseSong(g) ==
    /\ mcmd = "idle"
    /\ connected[g] /\ IsPlaying(g)
    /\ player' = [player EXCEPT ![g].paused = TRUE]
    /\ UNCHANGED <<musicQueues, musicState, connected, ended, tasks, mcmd, songs,
                   nonMusicVars>>
    /\ last' = <<"PauseSong", "">>

ResumeSong(g) ==
    /\ mcmd = "idle"
    /\ connected[g] /\ IsPaused(g)
    /\ player' = [player EXCEPT ![g].paused = FALSE]
    /\ UNCHANGED <<musicQueues, musicState, connected, ended, tasks, mcmd, songs,
                   nonMusicVars>>
    /\ last' = <<"ResumeSong", "">>

\* a stop that leaves current_song in place
StopMusicKeepsCurrentSong(g) ==
    /\ mcmd = "idle"
    /\ connected[g]
    /\ Len(ended) < MaxPending
    /\ musicQueues' = IF g \in DOMAIN musicQueues
                      THEN [musicQueues EXCEPT ![g] = <<>>] ELSE musicQueues
    /\ ended' = StoppedPlayers(g, Cancelled(g, "stopped"), "stopped")
    /\ player' = [player EXCEPT ![g] = NoPlayer]
    /\ UNCHANGED <<musicState, connected, tasks, mcmd, songs, nonMusicVars>>
    /\ last' = <<"StopMusic", "">>

\* stop_music: the queue and current_song are cleared, then the player is stopped
StopMusic(g) ==
    /\ mcmd = "idle"
    /\ connected[g]
    /\ Len(ended) < MaxPending
    /\ musicQueues' = IF g \in DOMAIN musicQueues
                      THEN [musicQueues EXCEPT ![g] = <<>>] ELSE musicQueues
    /\ musicState' = SetCurrentSong(g, NoSong, FALSE)
    /\ ended' = StoppedPlayers(g, Cancelled(g, "stopped"), "stopped")
    /\ player' = [player EXCEPT ![g] = NoPlayer]
    /\ UNCHANGED <<connected, tasks, mcmd, songs, nonMusicVars>>
    /\ last' = <<"StopMusic", "">>

\* toggle_loop
ToggleLoop(g) ==
    /\ mcmd = "idle"
    /\ musicState' = [x \in DOMAIN musicState \cup {g} |->
                         IF x = g
                         THEN [current_song |-> CurrentSong(g), loop |-> ~LoopMode(g)]
                         ELSE musicState[x]]
    /\ UNCHANGED <<musicQueues, connected, player, ended, tasks, mcmd, songs, nonMusicVars>>
    /\ last' = <<"ToggleLoop", "">>

\* leave_voice and leave_voice_channel: the music state is cleared, the player
\* is stopped and the client disconnects
LeaveVoice(g) ==
    /\ mcmd = "idle"
    /\ Len(ended) < MaxPending
    /\ musicQueues' = IF g \in DOMAIN musicQueues
                      THEN [musicQueues EXCEPT ![g] = <<>>] ELSE musicQueues
    /\ musicState' = SetCurrentSong(g, NoSong, FALSE)
    /\ IF connected[g]
       THEN /\ ended' = StoppedPlayers(g, Cancelled(g, "left"), "left")
            /\ player' = [player EXCEPT ![g] = NoPlayer]
            /\ connected' = [connected EXCEPT ![g] = FALSE]
       ELSE /\ ended' = Cancelled(g, "left")
            /\ UNCHANGED <<player, connected>>
    /\ UNCHANGED <<tasks, mcmd, songs, nonMusicVars>>
    /\ last' = <<"LeaveVoice", "">>

\* the join that precedes playing (the join command, or play's auto-join)
JoinForMusic(g) ==
    /\ mcmd = "idle"
    /\ ~connected[g]
    /\ connected' = [connected EXCEPT ![g] = TRUE]
    /\ UNCHANGED <<musicQueues, musicState, player, ended, tasks, mcmd, songs,
                   nonMusicVars>>
    /\ last' = <<"JoinForMusic", "">>

MusicInit ==
    /\ musicQueues = <<>>
    /\ musicState = <<>>
    /\ connected = [g \in MusicGuilds |-> FALSE]
    /\ player = [g \in MusicGuilds |-> NoPlayer]
    /\ ended = <<>>
    /\ tasks = 0
    /\ mcmd = "idle"
    /\ songs = 0
    /\ last = <<"", "">>

MusicNext ==
    \/ \E g \in MusicGuilds, n \in 1..2 : PlayMusicEnqueue(g, n)
    \/ \E g \in MusicGuilds, srcOk \in BOOLEAN : PlayMusicStart(g, srcOk)
    \/ \E g \in MusicGuilds, srcOk \in BOOLEAN : PlayNextTask(g, srcOk)
    \/ \E g \in MusicGuilds, error \in BOOLEAN : SongEnds(g, error)
    \/ \E i \in 1..MaxPending : AfterPlaying(i)
    \/ \E g \in MusicGuilds : SkipSong(g)
    \/ \E g \in MusicGuilds : PauseSong(g)
    \/ \E g \in MusicGuilds : ResumeSong(g)
    \/ \E g \in MusicGuilds : StopMusic(g)
    \/ \E g \in MusicGuilds : ToggleLoop(g)
    \/ \E g \in MusicGuilds : LeaveVoice(g)
    \/ \E g \in MusicGuilds : JoinForMusic(g)

(***************************************************************************)
(* Voice connection handler                                                *)
(***************************************************************************)

\* max_attempts of join_voice_channel
MaxAttempts == 5

nonVoiceVars == <<userMemory, calls, musicVars, sumVars, contextVars, reasonVars, restVars>>

\* str(e).lower(), word by word
Lower(w) ==
    CASE w = "Already" -> "already"
      [] w = "WebSocket" -> "websocket"
      [] w = "Voice" -> "voice"
      [] w = "Missing" -> "missing"
      [] w = "Session" -> "session"
      [] OTHER -> w

LowerMsg(msg) == [i \in 1..Len(msg) |-> Lower(msg[i])]

\* keyword in error_msg: the keyword's words occur consecutively in the text
Contains(msg, kw) ==
    \E i \in 1..(Len(msg) - Len(kw) + 1) : SubSeq(msg, i, i + Len(kw) - 1) = kw

AnyKeyword(msg, kws) == \E kw \in kws : Contains(msg, kw)

SessionKeywords ==
    {<<"4006">>, <<"session", "no", "longer", "valid">>, <<"session", "invalid">>,
     <<"voice", "session">>}

StateKeywords == {<<"already", "connected">>, <<"state">>, <<"connection", "state">>}

PermissionKeywords == {<<"permission">>, <<"forbidden">>, <<"missing", "access">>}

GatewayKeywords == {<<"gateway">>, <<"websocket">>, <<"heartbeat">>}

\* the keywords of the last handler (except Exception)
VoiceKeywords == {<<"session">>, <<"voice">>, <<"connection">>, <<"websocket">>}

\* except discord.ClientException: an unmatched text is a regular failure
ClassifyClientException(msg) ==
    LET m == LowerMsg(msg)
    IN  IF AnyKeyword(m, SessionKeywords) THEN "4006_error"
        ELSE IF AnyKeyword(m, StateKeywords) THEN "state_mismatch"
        ELSE IF AnyKeyword(m, PermissionKeywords) THEN "permission_error"
        ELSE IF AnyKeyword(m, GatewayKeywords) THEN "gateway_error"
        ELSE "None"

\* a handler that never treats an unexpected error as session-invalid
ClassifyExceptionNever4006(msg) == "None"

\* except asyncio.TimeoutError
ClassifyTimeout(a) == IF a > 1 THEN "4006_error" ELSE "None"

\* except Exception
ClassifyException(msg) ==
    IF AnyKeyword(LowerMsg(msg), VoiceKeywords) THEN "4006_error" ELSE "None"

\* the except clauses of attempt_voice_connection, in order
ClassifyError(e, a) ==
    CASE e.type = "ClientException" -> ClassifyClientException(e.msg)
      [] e.type = "TimeoutError" -> ClassifyTimeout(a)
      [] OTHER -> ClassifyException(e.msg)

NoException == [type |-> "none", msg |-> <<>>]

\* what Connectable.connect raises when the guild already has a voice client
AlreadyConnected ==
    [type |-> "ClientException",
     msg |-> <<"Already", "connected", "to", "a", "voice", "channel">>]

\* the error texts explored
ErrorTexts ==
    { <<"WebSocket", "closed", "with", "4006">>,
      <<"Session", "invalid">>,
      <<"Missing", "permission">>,
      <<"WebSocket", "closed", "with", "1006">>,
      <<"Voice", "handshake", "failed">>,
      <<"opus", "not", "loaded">> }

ConnectErrors ==
    [type : {"ClientException", "Exception"}, msg : ErrorTexts]
        \cup {[type |-> "TimeoutError", msg |-> <<>>]}

\* what channel.connect does: returns a client, returns a client whose
\* websocket is already closed, returns nothing, or raises
ConnectOutcomes ==
    [kind : {"client", "client_ws_closed", "none"}, error : {NoException}]
        \cup [kind : {"raise"}, error : ConnectErrors]

NewJoinLog ==
    [attempts |-> 0, all4006 |-> TRUE, delays |-> <<>>, cleanups |-> 0,
     report |-> "none", returned |-> "pending"]

\* the body of a join command returns: its locals are gone, the voice lock is
\* released when held (async with), and the after-invoke hook runs
JoinReturn(c, log, value, message, held) ==
    /\ jpc' = [jpc EXCEPT ![c] = "returned"]
    /\ joinLog' = [joinLog EXCEPT ![c] = [log EXCEPT !.returned = value,
                                                     !.report = message]]
    /\ voiceLocks' = IF held THEN [voiceLocks EXCEPT ![ctx[c].guild] = FALSE]
                     ELSE voiceLocks
    /\ attempt' = [attempt EXCEPT ![c] = 0]
    /\ result' = [result EXCEPT ![c] = "None"]
    /\ lastError' = [lastError EXCEPT ![c] = NoException]
    /\ QueueAfterInvoke
    /\ pc' = [pc EXCEPT ![c] = "done"]
    /\ UNCHANGED <<err, ctx>>

InJoin(c, command, at) ==
    /\ pc[c] = "body"
    /\ ctx[c].command = command
    /\ jpc[c] = at

\* join_voice_channel up to its first suspension with the lock held: the
\* author must be in a voice channel, a locked guild lock rejects the request,
\* otherwise the lock is taken and the existing client is looked at
JoinVoiceChannel(c) ==
    /\ InJoin(c, "join", "start")
    /\ LET g == ctx[c].guild
           ch == ctx[c].channel
       IN  IF ch = NoChannel
           THEN JoinReturn(c, joinLog[c], "False", "not_in_voice", FALSE)
           ELSE IF voiceLocks[g]
           THEN JoinReturn(c, joinLog[c], "False", "in_progress", FALSE)
           ELSE IF voiceClient[g] = ch
           THEN JoinReturn(c, joinLog[c], "True", "already_connected", FALSE)
           ELSE /\ voiceLocks' = [voiceLocks EXCEPT ![g] = TRUE]
                /\ jpc' = [jpc EXCEPT ![c] =
                              IF voiceClient[g] # NoChannel THEN "moving"
                              ELSE "send_connecting"]
                /\ UNCHANGED <<cmdVars, attempt, result, lastError, joinLog>>
    /\ UNCHANGED <<voiceClient, nonVoiceVars>>

\* await ctx.voice_client.move_to(channel)
JoinMoveTo(c, ok) ==
    /\ InJoin(c, "join", "moving")
    /\ IF ok
       THEN /\ voiceClient' = [voiceClient EXCEPT ![ctx[c].guild] = ctx[c].channel]
            /\ JoinReturn(c, joinLog[c], "True", "moved", TRUE)
       ELSE /\ jpc' = [jpc EXCEPT ![c] = "send_connecting"]
            /\ UNCHANGED <<cmdVars, voiceLocks, voiceClient, joinLog,
                           attempt, result, lastError>>
    /\ UNCHANGED nonVoiceVars

\* the connecting message and force_cleanup_voice_state, which disconnects the
\* guild's voice client
JoinSendConnecting(c, sent) ==
    /\ InJoin(c, "join", "send_connecting")
    /\ IF ~sent
       THEN /\ JoinReturn(c, joinLog[c], "False", "send_failed", TRUE)
            /\ UNCHANGED voiceClient
       ELSE /\ voiceClient' = [voiceClient EXCEPT ![ctx[c].guild] = NoChannel]
            /\ attempt' = [attempt EXCEPT ![c] = 1]
            /\ jpc' = [jpc EXCEPT ![c] = "attempt"]
            /\ UNCHANGED <<cmdVars, voiceLocks, joinLog, result, lastError>>
    /\ UNCHANGED nonVoiceVars

\* attempt_voice_connection up to channel.connect: the first attempt checks the
\* gateway and the permissions; connect raises at once when the guild already
\* has a voice client and registers the new client otherwise
AttemptVoiceConnection(c, pre) ==
    /\ InJoin(c, "join", "attempt")
    /\ pre = "ok" \/ attempt[c] = 1
    /\ joinLog' = [joinLog EXCEPT ![c].attempts = @ + 1]
    /\ LET g == ctx[c].guild
       IN  IF pre = "gateway_unhealthy"
           THEN /\ result' = [result EXCEPT ![c] = "gateway_error"]
                /\ jpc' = [jpc EXCEPT ![c] = "classified"]
                /\ UNCHANGED <<voiceClient, lastError>>
           ELSE IF pre = "no_permission"
           THEN /\ result' = [result EXCEPT ![c] = "permission_error"]
                /\ jpc' = [jpc EXCEPT ![c] = "classified"]
                /\ UNCHANGED <<voiceClient, lastError>>
           ELSE IF voiceClient[g] # NoChannel
           THEN /\ lastError' = [lastError EXCEPT ![c] = AlreadyConnected]
                /\ result' = [result EXCEPT ![c] = ClassifyError(AlreadyConnected, attempt[c])]
                /\ jpc' = [jpc EXCEPT ![c] = "classified"]
                /\ UNCHANGED voiceClient
           ELSE /\ voiceClient' = [voiceClient EXCEPT ![g] = ctx[c].channel]
                /\ jpc' = [jpc EXCEPT ![c] = "connecting"]
                /\ UNCHANGED <<result, lastError>>
    /\ UNCHANGED <<cmdVars, voiceLocks, attempt, nonVoiceVars>>

\* channel.connect ends and attempt_voice_connection classifies the outcome;
\* connect removes its client again when it times out
ConnectEnds(c, o) ==
    /\ InJoin(c, "join", "connecting")
    /\ result' = [result EXCEPT ![c] =
                     CASE o.kind = "client" -> "VoiceClient"
                       [] o.kind = "client_ws_closed" -> "4006_error"
                       [] o.kind = "none" -> "None"
                       [] OTHER -> ClassifyError(o.error, attempt[c])]
    /\ lastError' = [lastError EXCEPT ![c] = o.error]
    /\ voiceClient' = IF o.error.type = "TimeoutError"
                      THEN [voiceClient EXCEPT ![ctx[c].guild] = NoChannel]
                      ELSE voiceClient
    /\ jpc' = [jpc EXCEPT ![c] = "classified"]
    /\ UNCHANGED <<cmdVars, voiceLocks, attempt, joinLog, nonVoiceVars>>

\* a retry delay that shrinks with the attempt number
RetryDelayShrinking(a, r) == (MaxAttempts - a) * 3

\* the sleep before the next attempt: attempt * 3 after a 4006 error, the
\* fixed gateway wait after a gateway error, attempt * 2 otherwise
RetryDelay(a, r) ==
    IF r = "4006_error" THEN a * 3
    ELSE IF r = "gateway_error" THEN 10
    ELSE a * 2

\* consistent_4006 is assigned True and never cleared
Consistent4006(log) == TRUE

\* the voice clients left after the cleanup a result calls for:
\* force_cleanup_voice_state disconnects the guild's client, the deep 4006
\* cleanup of later attempts disconnects the clients of all guilds
ClientsAfterCleanup(g, a, r) ==
    IF r = "4006_error" /\ a >= 2 THEN [x \in Guilds |-> NoChannel]
    ELSE IF r \in {"4006_error", "state_mismatch"}
    THEN [voiceClient EXCEPT ![g] = NoChannel]
    ELSE voiceClient

\* a loop that retries after a permission error
IsFinalResultRetryPermission(r) == r = "VoiceClient"

\* results after which the loop returns at once
IsFinalResult(r) == r \in {"VoiceClient", "permission_error"}

\* the body of the retry loop after attempt_voice_connection returned
JoinHandleResult(c) ==
    /\ InJoin(c, "join", "classified")
    /\ LET g == ctx[c].guild
           a == attempt[c]
           r == result[c]
           log == [joinLog[c] EXCEPT
                      !.all4006 = @ /\ (r \in {"4006_error", "VoiceClient"}),
                      !.cleanups = IF r = "4006_error" THEN @ + 1 ELSE @,
                      !.delays = IF ~IsFinalResult(r) /\ a < MaxAttempts
                                 THEN Append(@, RetryDelay(a, r)) ELSE @]
       IN  IF IsFinalResult(r)
           THEN /\ IF r = "VoiceClient"
                   THEN JoinReturn(c, log, "True", "connected", TRUE)
                   ELSE JoinReturn(c, log, "False", "missing_permissions", TRUE)
                /\ UNCHANGED voiceClient
           ELSE /\ voiceClient' = ClientsAfterCleanup(g, a, r)
                /\ IF a < MaxAttempts
                   THEN /\ attempt' = [attempt EXCEPT ![c] = a + 1]
                        /\ jpc' = [jpc EXCEPT ![c] = "attempt"]
                        /\ joinLog' = [joinLog EXCEPT ![c] = log]
                        /\ lastError' = [lastError EXCEPT ![c] = NoException]
                        /\ UNCHANGED <<cmdVars, voiceLocks, result>>
                   ELSE JoinReturn(c, log, "False",
                                   IF Consistent4006(log) THEN "persistent_4006"
                                   ELSE "mixed_errors", TRUE)
    /\ UNCHANGED nonVoiceVars

\* raw_voice_join up to its first voice operation: no lock is consulted
RawVoiceJoin(c) ==
    /\ InJoin(c, "joinraw", "start")
    /\ LET g == ctx[c].guild
           ch == ctx[c].channel
       IN  IF ch = NoChannel
           THEN JoinReturn(c, joinLog[c], "None", "not_in_voice", FALSE)
           ELSE IF voiceClient[g] = ch
           THEN JoinReturn(c, joinLog[c], "None", "raw_already_connected", FALSE)
           ELSE /\ jpc' = [jpc EXCEPT ![c] =
                              IF voiceClient[g] # NoChannel THEN "raw_moving"
                              ELSE "raw_attempt"]
                /\ UNCHANGED <<cmdVars, voiceLocks, joinLog, attempt, result, lastError>>
    /\ UNCHANGED <<voiceClient, nonVoiceVars>>

\* await ctx.voice_client.move_to(channel) in raw_voice_join
RawMoveTo(c, ok) ==
    /\ InJoin(c, "joinraw", "raw_moving")
    /\ IF ok
       THEN /\ voiceClient' = [voiceClient EXCEPT ![ctx[c].guild] = ctx[c].channel]
            /\ JoinReturn(c, joinLog[c], "None", "raw_moved", FALSE)
       ELSE /\ jpc' = [jpc EXCEPT ![c] = "raw_attempt"]
            /\ UNCHANGED <<cmdVars, voiceLocks, voiceClient, joinLog,
                           attempt, result, lastError>>
    /\ UNCHANGED nonVoiceVars

\* the raw channel.connect begins
RawConnectBegins(c) ==
    /\ InJoin(c, "joinraw", "raw_attempt")
    /\ LET g == ctx[c].guild
           log == [joinLog[c] EXCEPT !.attempts = @ + 1]
       IN  IF voiceClient[g] # NoChannel
           THEN /\ JoinReturn(c, log, "None", "raw_discord_error", FALSE)
                /\ UNCHANGED voiceClient
           ELSE /\ voiceClient' = [voiceClient EXCEPT ![g] = ctx[c].channel]
                /\ jpc' = [jpc EXCEPT ![c] = "raw_connecting"]
                /\ joinLog' = [joinLog EXCEPT ![c] = log]
                /\ UNCHANGED <<cmdVars, voiceLocks, attempt, result, lastError>>
    /\ UNCHANGED nonVoiceVars

\* the raw channel.connect ends; every outcome is only reported
RawConnectEnds(c, o) ==
    /\ InJoin(c, "joinraw", "raw_connecting")
    /\ voiceClient' = IF o.error.type = "TimeoutError"
                      THEN [voiceClient EXCEPT ![ctx[c].guild] = NoChannel]
                      ELSE voiceClient
    /\ JoinReturn(c, joinLog[c], "None",
                  CASE o.kind \in {"client", "client_ws_closed"} -> "raw_connected"
                    [] o.kind = "none" -> "raw_returned_none"
                    [] o.error.type = "ClientException" -> "raw_discord_error"
                    [] o.error.type = "TimeoutError" -> "raw_timed_out"
                    [] OTHER -> "raw_unexpected_error",
                  FALSE)
    /\ UNCHANGED nonVoiceVars

VoiceInit ==
    /\ voiceLocks = [g \in Guilds |-> FALSE]
    /\ voiceClient = [g \in Guilds |-> NoChannel]
    /\ jpc = [c \in Cmds |-> "start"]
    /\ attempt = [c \in Cmds |-> 0]
    /\ result = [c \in Cmds |-> "None"]
    /\ lastError = [c \in Cmds |-> NoException]
    /\ joinLog = [c \in Cmds |-> NewJoinLog]

\* the invocations explored together with the command lock: joins and raw
\* joins of authors in two channels of one guild and in another guild, and a
\* command that fails its check
VoiceDispatch ==
    ({NoError} \X
        { [command |-> "join", guild |-> 1, channel |-> "A"],
          [command |-> "joinraw", guild |-> 1, channel |-> "B"],
          [command |-> "join", guild |-> 2, channel |-> NoChannel] })
        \cup ({"CheckFailure"} \X PlainContexts)

\* the connect outcomes explored together with the command lock
VoiceOutcomes ==
    { [kind |-> "client", error |-> NoException],
      [kind |-> "raise",
       error |-> [type |-> "ClientException",
                  msg |-> <<"WebSocket", "closed", "with", "4006">>]] }

VoiceNext ==
    \/ \E c \in Cmds, d \in VoiceDispatch : ProcessCommands(c, d[1], d[2])
    \/ \E c \in Cmds : LockAcquired(c)
    \/ \E c \in Cmds : OnCommandError(c)
    \/ \E c \in Cmds : JoinVoiceChannel(c)
    \/ \E c \in Cmds, ok \in BOOLEAN : JoinMoveTo(c, ok)
    \/ \E c \in Cmds : JoinSendConnecting(c, TRUE)
    \/ \E c \in Cmds : AttemptVoiceConnection(c, "ok")
    \/ \E c \in Cmds, o \in VoiceOutcomes : ConnectEnds(c, o)
    \/ \E c \in Cmds : JoinHandleResult(c)
    \/ \E c \in Cmds : RawVoiceJoin(c)
    \/ \E c \in Cmds, ok \in BOOLEAN : RawMoveTo(c, ok)
    \/ \E c \in Cmds : RawConnectBegins(c)
    \/ \E c \in Cmds, o \in VoiceOutcomes : RawConnectEnds(c, o)

\* one join command in its body, holding the command lock, in a guild whose
\* voice client is connected somewhere or nowhere
JoinInit ==
    /\ lockLocked = TRUE
    /\ lockWaiters = <<>>
    /\ lockWoken = {}
    /\ pc = [c \in Cmds |-> IF c = 1 THEN "body" ELSE "idle"]
    /\ err = [c \in Cmds |-> NoError]
    /\ \E k \in Contexts({"join"}) : ctx = [c \in Cmds |-> IF c = 1 THEN k ELSE NoCtx]
    /\ MemInit
    /\ voiceLocks = [g \in Guilds |-> FALSE]
    /\ voiceClient \in [Guilds -> Channels \cup {NoChannel}]
    /\ jpc = [c \in Cmds |-> "start"]
    /\ attempt = [c \in Cmds |-> 0]
    /\ result = [c \in Cmds |-> "None"]
    /\ lastError = [c \in Cmds |-> NoException]
    /\ joinLog = [c \in Cmds |-> NewJoinLog]
    /\ MusicInit
    /\ SumInit
    /\ reason = ReasonIdle
    /\ sender = SenderIdle
    /\ RestInit

JoinNext ==
    \/ \E c \in Cmds : JoinVoiceChannel(c)
    \/ \E c \in Cmds, ok \in BOOLEAN : JoinMoveTo(c, ok)
    \/ \E c \in Cmds, sent \in BOOLEAN : JoinSendConnecting(c, sent)
    \/ \E c \in Cmds, pre \in {"ok", "gateway_unhealthy", "no_permission"} :
           AttemptVoiceConnection(c, pre)
    \/ \E c \in Cmds, o \in ConnectOutcomes : ConnectEnds(c, o)
    \/ \E c \in Cmds : JoinHandleResult(c)

(***************************************************************************)
(* The reason command                                                      *)
(***************************************************************************)

nonReasonVars == <<cmdVars, voiceVars, musicVars, sumVars, restVars>>

\* text is a sequence of characters
Chars == {"-", "s", "m", " "}

Prompts == UNION {[1..n -> Chars] : n \in 0..MaxPromptLen}

\* str.lstrip, str.rstrip and str.strip on blanks
RECURSIVE StrLStrip(_)
StrLStrip(s) == IF s # <<>> /\ Head(s) = " " THEN StrLStrip(Tail(s)) ELSE s

RECURSIVE StrRStrip(_)
StrRStrip(s) ==
    IF s # <<>> /\ s[Len(s)] = " " THEN StrRStrip(SubSeq(s, 1, Len(s) - 1)) ELSE s

StrStrip(s) == StrRStrip(StrLStrip(s))

\* str.startswith
StrStartsWith(s, p) == Len(s) >= Len(p) /\ SubSeq(s, 1, Len(p)) = p

\* p in s
StrContains(s, p) ==
    \E i \in 1..(Len(s) - Len(p) + 1) : SubSeq(s, i, i + Len(p) - 1) = p

\* str.replace: every occurrence, left to right, without overlap
RECURSIVE StrReplace(_, _, _)
StrReplace(s, old, new) ==
    IF s = <<>> THEN <<>>
    ELSE IF StrStartsWith(s, old)
    THEN new \o StrReplace(SubSeq(s, Len(old) + 1, Len(s)), old, new)
    ELSE <<Head(s)>> \o StrReplace(Tail(s), old, new)

FlagM == <<"-", "m">>

FlagS == <<"-", "s">>

\* include_reply and manual_search as lms_chat_generate detects them
IncludeReply(prompt) ==
    \/ StrStartsWith(StrStrip(prompt), FlagM \o <<" ">>)
    \/ StrContains(prompt, <<" ">> \o FlagM \o <<" ">>)
    \/ StrStrip(prompt) = FlagM

\* a detector that finds -s wherever -m is found
ManualSearchAnywhere(prompt) ==
    \/ StrStartsWith(StrStrip(prompt), FlagS \o <<" ">>)
    \/ StrContains(prompt, <<" ">> \o FlagS \o <<" ">>)
    \/ StrStrip(prompt) = FlagS

ManualSearch(prompt) == StrStartsWith(StrStrip(prompt), FlagS \o <<" ">>)

\* the prompt after the flags have been removed; an empty -m prompt becomes
\* the default question, written here as the single word "?"
DefaultQuestion == <<"?">>

CleanPrompt(prompt) ==
    LET withoutM ==
            IF IncludeReply(prompt)
            THEN LET stripped == StrStrip(prompt)
                     cut == IF StrStartsWith(stripped, FlagM \o <<" ">>)
                            THEN StrStrip(SubSeq(stripped, 4, Len(stripped)))
                            ELSE IF StrStartsWith(stripped, FlagM)
                            THEN StrStrip(SubSeq(stripped, 3, Len(stripped)))
                            ELSE StrStrip(StrReplace(
                                     StrReplace(stripped, <<" ">> \o FlagM \o <<" ">>,
                                                <<" ">>),
                                     <<" ">> \o FlagM, <<>>))
                 IN  IF cut = <<>> THEN DefaultQuestion ELSE cut
            ELSE prompt
    IN  IF ManualSearch(prompt)
        THEN StrStrip(SubSeq(withoutM, 4, Len(withoutM)))
        ELSE withoutM

\* the branch lms_chat_generate takes
ReasonMode(prompt, has_attachments) ==
    IF StrStrip(prompt) = <<>> THEN "rejected"
    ELSE IF has_attachments THEN "vis"
    ELSE IF ManualSearch(prompt) THEN "search"
    ELSE IF IncludeReply(prompt) THEN "reply"
    ELSE "standard"

\* the notices the command sends instead of a response
NoticeNoPrompt == "Please provide a question or prompt."

NoticeNeedsReply == "The -m flag requires replying to a message."

NoticeEmptyResponse == "Empty chat response."

NoticeEmptyAfterCleanup == "Response was empty after processing."

NoticeRequestFailed == "Chat API request failed"

\* the invocation: the checks for an empty prompt and for attachments, the
\* flag detection and the flag removal; an empty prompt is answered with a
\* notice, attachments hand the invocation to visual analysis, and -m on a
\* message that replies to nothing is answered with a notice
ReasonParseFlags ==
    /\ reason.pc = "invoked"
    /\ LET mode == ReasonMode(reason.prompt, reason.has_attachments)
           parsed == [reason EXCEPT !.mode = mode,
                                    !.cleaned = IF mode \in {"rejected", "vis"}
                                                THEN reason.prompt
                                                ELSE CleanPrompt(reason.prompt)]
       IN  reason' =
             IF mode = "rejected"
             THEN [parsed EXCEPT !.pc = "done", !.outcome = "notice",
                                 !.notices = Append(@, NoticeNoPrompt)]
             ELSE IF mode = "vis"
             THEN [parsed EXCEPT !.pc = "done", !.outcome = "delegated"]
             ELSE IF mode = "reply" /\ ~reason.is_reply
             THEN [parsed EXCEPT !.pc = "done", !.outcome = "notice",
                                 !.notices = Append(@, NoticeNeedsReply)]
             ELSE [parsed EXCEPT !.pc = "parsed"]
    /\ UNCHANGED <<nonReasonVars, memVars, contextVars, sender>>

\* search terms are words, each known by its length
SearchTerms == {<<12, 12, 12>>, <<12, 12, 12, 12, 12>>, <<30, 20>>,
                <<30, 30, 30, 30>>}

RECURSIVE TermsLen(_)
TermsLen(words) ==
    IF words = <<>> THEN 0
    ELSE IF Len(words) = 1 THEN words[1]
    ELSE words[1] + 1 + TermsLen(Tail(words))

\* ' '.join(terms.split()[:k])
FirstWords(words, k) == SubSeq(words, 1, IF Len(words) < k THEN Len(words) ELSE k)

\* _ddg_search(query): results when the backend answers the query, or the
\* first 10 words of a query longer than 100 characters
DdgSearch(query, answered) ==
    \/ query \in answered
    \/ TermsLen(query) > 100 /\ FirstWords(query, 10) \in answered

\* search terms above this length are retried in a simplified form
SimplifyAbove == 50

\* the simplified retry: the first 3 words
SimplifiedWords == 3

\* the retry condition of the -m branch
SimplifiedRetry(search_terms, found) == ~found /\ TermsLen(search_terms) > SimplifyAbove

\* the searches of the -s branch: one call of _ddg_search
SearchBranch(search_terms, answered) ==
    <<[terms |-> search_terms, max_results |-> 5,
       data |-> DdgSearch(search_terms, answered)]>>

\* the searches of the -m branch: one call of _ddg_search and the simplified
\* retry
ReplyBranch(search_terms, answered) ==
    LET found == DdgSearch(search_terms, answered)
        simplified == FirstWords(search_terms, SimplifiedWords)
    IN  <<[terms |-> search_terms, max_results |-> 5, data |-> found]>>
        \o IF SimplifiedRetry(search_terms, found)
           THEN <<[terms |-> simplified, max_results |-> 3,
                   data |-> DdgSearch(simplified, answered)]>>
           ELSE <<>>

\* the replied message's content
RepliedMessage == <<"replied message">>

\* the prompt of the -m branch around the question
AnalyzeReply(question) ==
    <<"Analyze this message that I'm replying to using the current web research:",
      "REPLIED MESSAGE:">> \o RepliedMessage \o <<"MY QUESTION:">> \o question
    \o <<"Please use the provided research context">>

\* a final prompt that is never augmented
FinalPromptPlain(mode, cleaned) == IF mode = "search" THEN cleaned ELSE StrStrip(cleaned)

\* final_prompt as the three branches leave it: the question of the -s
\* branch, the analysis request of the -m branch, the stripped prompt
FinalPrompt(mode, cleaned) ==
    IF mode = "search" THEN cleaned
    ELSE IF mode = "reply" THEN AnalyzeReply(StrStrip(cleaned))
    ELSE StrStrip(cleaned)

\* the branch of the mode: the searches and the final prompt
ReasonSearch(search_terms, answered) ==
    /\ reason.pc = "parsed"
    /\ reason' = [reason EXCEPT
                     !.pc = "searched",
                     !.search_terms = IF reason.mode = "standard" THEN <<>>
                                      ELSE search_terms,
                     !.searches = IF reason.mode = "search"
                                  THEN SearchBranch(search_terms, answered)
                                  ELSE IF reason.mode = "reply"
                                  THEN ReplyBranch(search_terms, answered)
                                  ELSE <<>>,
                     !.final_prompt = FinalPrompt(reason.mode, reason.cleaned)]
    /\ UNCHANGED <<nonReasonVars, memVars, contextVars, sender>>

\* the pieces of a streamed response
ResponseTokens == {"<think>", "</think>", "Answer:", "boxed", "x", " "}

Responses == UNION {[1..n -> ResponseTokens] : n \in 0..MaxResponseLen}

\* re.sub(r"<think>.*?</think>", ""): every block from a <think> to the next
\* </think>
RECURSIVE RemoveThinkBlocks(_)
RemoveThinkBlocks(text) ==
    IF text = <<>> THEN <<>>
    ELSE IF Head(text) = "<think>" /\ \E j \in 2..Len(text) : text[j] = "</think>"
    THEN LET j == CHOOSE k \in 2..Len(text) :
                      /\ text[k] = "</think>"
                      /\ \A l \in 2..(k - 1) : text[l] # "</think>"
         IN  RemoveThinkBlocks(SubSeq(text, j + 1, Len(text)))
    ELSE <<Head(text)>> \o RemoveThinkBlocks(Tail(text))

\* re.sub(r"<think>.*", ""): everything from the first <think>
RemoveOpenThink(text) ==
    IF \E j \in 1..Len(text) : text[j] = "<think>"
    THEN LET j == CHOOSE k \in 1..Len(text) :
                      /\ text[k] = "<think>"
                      /\ \A l \in 1..(k - 1) : text[l] # "<think>"
         IN  SubSeq(text, 1, j - 1)
    ELSE text

\* str.replace(token, "")
RemoveToken(text, token) == SelectSeq(text, LAMBDA t : t # token)

\* the chain-of-thought markers, in the order the cleanup looks for them
Markers == <<"FINAL ANSWER:", "Final Answer:", "### Answer", "Answer:">>

\* text.split(marker)[-1].strip() when the marker is in the text
AfterMarker(text, marker) ==
    IF \E j \in 1..Len(text) : text[j] = marker
    THEN LET j == CHOOSE k \in 1..Len(text) :
                      /\ text[k] = marker
                      /\ \A l \in (k + 1)..Len(text) : text[l] # marker
         IN  StrStrip(SubSeq(text, j + 1, Len(text)))
    ELSE text

RECURSIVE AfterMarkers(_, _)
AfterMarkers(text, markers) ==
    IF markers = <<>> THEN text
    ELSE AfterMarkers(AfterMarker(text, Head(markers)), Tail(markers))

\* the cleanup of the accumulated response
Cleanup(text) ==
    LET noThink == RemoveToken(RemoveToken(RemoveOpenThink(RemoveThinkBlocks(text)),
                                           "<think>"), "</think>")
    IN  StrStrip(RemoveToken(AfterMarkers(noThink, Markers), "boxed"))

\* an emptiness test that never finds a text empty
IsBlankNever(text) == FALSE

\* not text.strip()
IsBlank(text) == StrStrip(text) = <<>>

\* _remember on a memory and on the record of calls
MemoryWith(memory, user_id, turn) ==
    [u \in DOMAIN memory \cup {user_id} |->
        IF u = user_id
        THEN TrimHistory(Append(IF u \in DOMAIN memory THEN memory[u] ELSE <<>>, turn))
        ELSE memory[u]]

CallsWith(record, user_id, turn) ==
    [u \in DOMAIN record \cup {user_id} |->
        IF u = user_id
        THEN Append(IF u \in DOMAIN record THEN record[u] ELSE <<>>, turn)
        ELSE record[u]]

\* the chat request, the cleanup of the response, the answer to the user and
\* the two turns remembered
ReasonRespond(response, failed) ==
    /\ reason.pc = "searched"
    /\ LET cleaned == Cleanup(response)
           result_ == SendLimitedResult(Len(cleaned))
           userTurn == StoredTurn("user", [str |-> TRUE, text |-> reason.final_prompt])
           botTurn == StoredTurn("assistant", [str |-> TRUE, text |-> cleaned])
           notice(text) == [reason EXCEPT !.pc = "done", !.outcome = "notice",
                                          !.notices = Append(@, text)]
       IN  IF failed
           THEN /\ reason' = notice(NoticeRequestFailed)
                /\ UNCHANGED <<memVars, userContext>>
           ELSE IF response = <<>>
           THEN /\ reason' = [notice(NoticeEmptyResponse) EXCEPT !.response = response]
                /\ UNCHANGED <<memVars, userContext>>
           ELSE IF IsBlank(cleaned)
           THEN /\ reason' = [notice(NoticeEmptyAfterCleanup) EXCEPT
                                 !.response = response, !.accumulated = cleaned]
                /\ UNCHANGED <<memVars, userContext>>
           ELSE IF result_.raised
           THEN /\ reason' = [notice(NoticeRequestFailed) EXCEPT
                                 !.response = response, !.accumulated = cleaned,
                                 !.sent = result_.delivered]
                /\ UNCHANGED <<memVars, userContext>>
           ELSE /\ reason' = [reason EXCEPT
                                 !.pc = "done", !.outcome = "responded",
                                 !.response = response, !.accumulated = cleaned,
                                 !.sent = result_.delivered]
                /\ userMemory' = MemoryWith(MemoryWith(userMemory, reason.author,
                                                       userTurn),
                                            reason.author, botTurn)
                /\ calls' = CallsWith(CallsWith(calls, reason.author, userTurn),
                                      reason.author, botTurn)
                /\ userContext' = [u \in DOMAIN userContext \cup {reason.author} |->
                                      IF u = reason.author THEN cleaned
                                      ELSE userContext[u]]
    /\ UNCHANGED <<nonReasonVars, lastClear, sender>>

\* invocations by one author whose message replies to another
ReasonModeInit ==
    /\ CmdInit /\ MemInit /\ VoiceInit /\ MusicInit /\ SumInit
    /\ sender = SenderIdle
    /\ RestInit
    /\ reason \in {[ReasonIdle EXCEPT !.pc = "invoked", !.author = 1, !.prompt = p,
                                      !.has_attachments = a, !.is_reply = TRUE] :
                      p \in Prompts, a \in BOOLEAN}

ReasonModeNext == ReasonParseFlags

\* the prompts of the invocations followed to their end: a plain question,
\* -s, -m, both flags in both orders, -m alone and a blank prompt
ReasonPrompts ==
    { <<"s">>,
      <<"-", "s", " ", "s">>,
      <<"-", "m", " ", "s">>,
      <<"-", "m", " ", "-", "s", " ", "s">>,
      <<"-", "s", " ", "-", "m", " ", "s">>,
      <<"-", "m">>,
      <<" ">> }

ReasonInit ==
    /\ CmdInit /\ MemInit /\ VoiceInit /\ MusicInit /\ SumInit
    /\ sender = SenderIdle
    /\ RestInit
    /\ reason \in {[ReasonIdle EXCEPT !.pc = "invoked", !.author = 1, !.prompt = p,
                                      !.has_attachments = a, !.is_reply = r] :
                      p \in ReasonPrompts, a \in BOOLEAN, r \in BOOLEAN}

ReasonNext ==
    \/ ReasonParseFlags
    \/ \E search_terms \in SearchTerms :
         \E answered \in SUBSET {search_terms, FirstWords(search_terms, SimplifiedWords)} :
            ReasonSearch(search_terms, answered)
    \/ \E response \in Responses : ReasonRespond(response, FALSE)
    \/ ReasonRespond(<<>>, TRUE)

\* _send_limited(ctx, text) with a text of sender.n characters
SendLimited ==
    /\ sender.pc = "called"
    /\ LET r == SendLimitedResult(sender.n)
       IN  sender' = [pc |-> "returned", n |-> sender.n, contents |-> r.contents,
                      delivered |-> r.delivered, raised |-> r.raised]
    /\ UNCHANGED <<nonReasonVars, memVars, contextVars, reason>>

SendInit ==
    /\ CmdInit /\ MemInit /\ VoiceInit /\ MusicInit /\ SumInit
    /\ reason = ReasonIdle
    /\ RestInit
    /\ sender \in {[SenderIdle EXCEPT !.pc = "called", !.n = n] : n \in 0..MaxTextLen}

SendNext == SendLimited

(***************************************************************************)
(* The volume command                                                      *)
(***************************************************************************)

nonVolumeVars == <<cmdVars, memVars, voiceVars, musicVars, sumVars, contextVars,
                   reasonVars, search, handler, chat>>

\* the integers explored: the ends of the range, their neighbours, a value
\* inside and the extremes
VolumeArgs == {0 - VolumeMargin, -1, 0, 1, 50, 99, 100, 101, 100 + VolumeMargin}

\* a range test that accepts every integer
VolumeInRangeAlways(volume) == TRUE

\* 0 <= volume <= 100
VolumeInRange(volume) == 0 <= volume /\ volume <= 100

\* volume / 100.0, kept as the fraction it is
VolumeFloat(volume) == [num |-> volume, den |-> 100]

\* set_volume: the range check, the check for a voice client, the store into
\* _MUSIC_STATE and the update of the source being played, if there is one
SetVolume(g, volume, has_source) ==
    /\ IF ~VolumeInRange(volume)
       THEN volumes' = [volumes EXCEPT
                           !.last = [guild |-> g, volume |-> volume, reply |-> "range"]]
       ELSE IF ~connected[g]
       THEN volumes' = [volumes EXCEPT
                           !.last = [guild |-> g, volume |-> volume,
                                     reply |-> "not_connected"]]
       ELSE volumes' =
              [stored |-> [x \in DOMAIN volumes.stored \cup {g} |->
                              IF x = g THEN VolumeFloat(volume) ELSE volumes.stored[x]],
               source |-> IF has_source
                          THEN [x \in DOMAIN volumes.source \cup {g} |->
                                   IF x = g THEN VolumeFloat(volume)
                                   ELSE volumes.source[x]]
                          ELSE volumes.source,
               last |-> [guild |-> g, volume |-> volume, reply |-> "set"]]
    /\ UNCHANGED nonVolumeVars

VolumeNext ==
    \/ \E g \in MusicGuilds, volume \in VolumeArgs, has_source \in BOOLEAN :
           SetVolume(g, volume, has_source)
    \/ \E g \in MusicGuilds : JoinForMusic(g)
    \/ \E g \in MusicGuilds : LeaveVoice(g)

(***************************************************************************)
(* The search helper                                                       *)
(***************************************************************************)

nonSearchVars == <<cmdVars, memVars, voiceVars, musicVars, sumVars, contextVars,
                   reasonVars, volumes, handler, chat>>

\* queries longer than this are cut
MaxQueryLen == 500

\* queries longer than this are retried in a simplified form
SimplifyQueryAbove == 100

\* the simplified query: the first 10 words
SimplifiedQueryWords == 10

\* a query is a sequence of runs of characters: word characters (letters,
\* digits and the punctuation the helper keeps), blanks, and the characters
\* the helper replaces by a blank
Run(kind, len) == [kind |-> kind, len |-> len]

RECURSIVE Repeat(_, _)
Repeat(runs, n) == IF n = 0 THEN <<>> ELSE runs \o Repeat(runs, n - 1)

RECURSIVE RawLen(_)
RawLen(query) == IF query = <<>> THEN 0 ELSE Head(query).len + RawLen(Tail(query))

\* query.strip()
RECURSIVE StripLeft(_)
StripLeft(query) ==
    IF query # <<>> /\ Head(query).kind = "blank" THEN StripLeft(Tail(query)) ELSE query

RECURSIVE StripRight(_)
StripRight(query) ==
    IF query # <<>> /\ query[Len(query)].kind = "blank"
    THEN StripRight(SubSeq(query, 1, Len(query) - 1)) ELSE query

StripQuery(query) == StripRight(StripLeft(query))

\* query[:n]
RECURSIVE Prefix(_, _)
Prefix(query, n) ==
    IF query = <<>> \/ n = 0 THEN <<>>
    ELSE IF Head(query).len <= n
    THEN <<Head(query)>> \o Prefix(Tail(query), n - Head(query).len)
    ELSE <<Run(Head(query).kind, n)>>

\* original_query[:500] + "..." for a query of more than 500 characters
Truncate(query) ==
    IF RawLen(query) > MaxQueryLen
    THEN Prefix(query, MaxQueryLen) \o <<Run("word", 3)>>
    ELSE query

\* the two re.sub calls and the strip: every other character becomes a
\* blank, runs of blanks become one blank, the ends are stripped; what is
\* left is the words, each known by its length, one blank apart
RECURSIVE WordsFrom(_, _, _)
WordsFrom(query, current, words) ==
    IF query = <<>> THEN IF current > 0 THEN Append(words, current) ELSE words
    ELSE IF Head(query).kind = "word"
    THEN WordsFrom(Tail(query), current + Head(query).len, words)
    ELSE WordsFrom(Tail(query), 0, IF current > 0 THEN Append(words, current) ELSE words)

Sanitize(query) == WordsFrom(Truncate(StripQuery(query)), 0, <<>>)

\* an interface call returns results, returns nothing or raises
CallOutcomes == {"results", "empty", "raise"}

\* handlers that let the exception through
HandledNever(outcome) == outcome

\* except ImportError / except Exception around each method: the exception
\* is logged and the helper goes on
Handled(outcome) == IF outcome = "raise" THEN "empty" ELSE outcome

\* the state of a run: the calls made so far, each with the place it is made
\* from, and the result, if decided
RunStart == [calls |-> <<>>, result |-> "pending"]

Called(run, api, query, outcome) ==
    [calls |-> Append(run.calls, [api |-> api, query |-> query, outcome |-> outcome]),
     result |-> IF outcome = "empty" THEN "pending" ELSE outcome]

Decided(run, outcome) == [run EXCEPT !.result = IF outcome = "empty" THEN "pending"
                                                ELSE outcome]

\* Method 1: the DDGS class with default settings and, when that raises,
\* with the alternative settings
PrimaryMethod(run, query, env) ==
    IF run.result # "pending" THEN run
    ELSE IF ~env.ddgs THEN Decided(run, Handled("raise"))
    ELSE LET first == Called(run, "DDGS", query, env.default)
         IN  IF env.default # "raise"
             THEN first
             ELSE LET second == Called([first EXCEPT !.result = "pending"],
                                       "DDGS alternative", query, env.alternative)
                  IN  Decided(second, Handled(env.alternative))

\* Method 2: the legacy ddg function, when the import found it
LegacyMethod(run, query, env) ==
    IF run.result # "pending" \/ ~env.legacy THEN run
    ELSE Decided(Called(run, "ddg", query, env.ddg), Handled(env.ddg))

\* Method 3: the first 10 words of a query of more than 100 characters
SimplifiedMethod(run, query, env) ==
    IF run.result # "pending" \/ ~(TermsLen(query) > SimplifyQueryAbove) THEN run
    ELSE IF ~env.ddgs THEN Decided(run, Handled("raise"))
    ELSE Decided(Called(run, "DDGS simplified",
                        FirstWords(query, SimplifiedQueryWords),
                        env.simplified),
                 Handled(env.simplified))

\* _ddg_search(query): the calls made and the result, "empty" for []
DdgSearchRun(query, env) ==
    IF RawLen(StripQuery(query)) = 0 \/ Sanitize(query) = <<>>
    THEN [calls |-> <<>>, result |-> "empty"]
    ELSE LET run == SimplifiedMethod(
                        LegacyMethod(PrimaryMethod(RunStart, Sanitize(query), env),
                                     Sanitize(query), env),
                        Sanitize(query), env)
         IN  [run EXCEPT !.result = IF @ = "pending" THEN "empty" ELSE @]

\* the queries explored: empty, blank, only replaced characters, short, over
\* 100 characters with more and with fewer than 10 words, over 100
\* characters only before the blanks are normalised, and over 500 characters
SearchQueries ==
    { <<>>,
      <<Run("blank", 3)>>,
      <<Run("other", 2)>>,
      <<Run("word", 5), Run("blank", 1), Run("word", 5)>>,
      <<Run("word", 9)>> \o Repeat(<<Run("blank", 1), Run("word", 9)>>, 11),
      <<Run("word", 40), Run("other", 1), Run("word", 40), Run("blank", 1),
        Run("word", 40)>>,
      <<Run("word", 9)>> \o Repeat(<<Run("blank", 2), Run("word", 9)>>, 9),
      <<Run("word", 9)>> \o Repeat(<<Run("blank", 1), Run("word", 9)>>, 59) }

SearchEnvs ==
    [ddgs : BOOLEAN, legacy : BOOLEAN, default : CallOutcomes,
     alternative : CallOutcomes, ddg : CallOutcomes, simplified : CallOutcomes]

\* _ddg_search is called and returns
DdgSearchCall ==
    /\ search.pc = "called"
    /\ LET run == DdgSearchRun(search.query, search.env)
       IN  search' = [search EXCEPT !.pc = "returned", !.calls = run.calls,
                                    !.result = run.result]
    /\ UNCHANGED nonSearchVars

SearchInit ==
    /\ CmdInit /\ MemInit /\ VoiceInit /\ MusicInit /\ SumInit
    /\ reason = ReasonIdle
    /\ sender = SenderIdle
    /\ volumes = VolumesIdle
    /\ handler = HandlerIdle
    /\ chat = ChatIdle
    /\ search \in {[SearchIdle EXCEPT !.pc = "called", !.query = q, !.env = e] :
                      q \in SearchQueries, e \in SearchEnvs}

SearchNext == DdgSearchCall

(***************************************************************************)
(* The message handler                                                     *)
(***************************************************************************)

nonHandlerVars == <<cmdVars, memVars, voiceVars, musicVars, sumVars, contextVars,
                    reasonVars, volumes, search, chat>>

\* the four forms of the bot's mention
MentionPatterns == <<"<@id>", "<@!id>", "@name", "@display_name">>

\* the pieces of a message content: two of the mention forms, a word, a
\* blank and the easter egg
ContentTokens == {"<@id>", "@name", "hi", " ", "^^^"}

Contents == UNION {[1..n -> ContentTokens] : n \in 0..MaxContentLen}

\* for pattern in mention_patterns: content = content.replace(pattern, "").strip()
RECURSIVE WithoutMentions(_, _)
WithoutMentions(content, patterns) ==
    IF patterns = <<>> THEN content
    ELSE WithoutMentions(StrStrip(RemoveToken(content, Head(patterns))), Tail(patterns))

\* f"{PREFIX}reason -s {content}"
AsReasonCommand(content) == <<"PREFIX", "reason -s ">> \o content

\* a finally clause that restores nothing
AfterFinallyNothing(original_content, content) == content

\* finally: message.content = original_content
AfterFinally(original_content, content) == original_content

HandlerDone(outcome) ==
    [handler EXCEPT !.pc = "done", !.outcome = outcome]

\* what the finally clause leaves, then how the handler ends
HandlerRestored(outcome) ==
    [handler EXCEPT !.pc = "done", !.outcome = outcome,
                    !.content = AfterFinally(handler.original_content, handler.content)]

\* on_message up to its first await: the bot's own messages are ignored,
\* replies to the bot and plain messages go to process_commands, and a reply
\* that mentions the bot is rewritten into a reason -s invocation
OnMessage ==
    /\ handler.pc = "received"
    /\ handler' =
         IF handler.own THEN HandlerDone("ignored")
         ELSE IF handler.has_reference /\ handler.reply_to_bot
         THEN HandlerDone("process_commands")
         ELSE IF handler.mentioned /\ handler.has_reference
         THEN LET content == WithoutMentions(handler.content, MentionPatterns)
              IN  IF content = <<>>
                  THEN HandlerDone("process_commands")
                  ELSE [handler EXCEPT !.pc = "get_context",
                                       !.original_content = handler.content,
                                       !.content = AsReasonCommand(content),
                                       !.rewritten = TRUE]
         ELSE IF StrStrip(handler.content) = <<"^^^">>
         THEN HandlerDone("easter_egg")
         ELSE HandlerDone("process_commands")
    /\ UNCHANGED nonHandlerVars

\* bot.get_context returns a valid or an invalid context, or raises
OnMessageGetContext(outcome) ==
    /\ handler.pc = "get_context"
    /\ handler' = IF outcome = "valid" THEN [handler EXCEPT !.pc = "invoke"]
                  ELSE IF outcome = "invalid" THEN [handler EXCEPT !.pc = "reply"]
                  ELSE HandlerRestored("dispatch_raised")
    /\ UNCHANGED nonHandlerVars

\* bot.invoke returns, the command having succeeded or failed, or raises
OnMessageInvoke(outcome) ==
    /\ handler.pc = "invoke"
    /\ handler' = IF outcome = "raise" THEN HandlerRestored("dispatch_raised")
                  ELSE HandlerRestored(outcome)
    /\ UNCHANGED nonHandlerVars

\* the reply sent for an invalid context is delivered or raises
OnMessageReply(raised) ==
    /\ handler.pc = "reply"
    /\ handler' = IF raised THEN HandlerRestored("dispatch_raised")
                  ELSE HandlerRestored("context_invalid")
    /\ UNCHANGED nonHandlerVars

HandlerInit ==
    /\ CmdInit /\ MemInit /\ VoiceInit /\ MusicInit /\ SumInit
    /\ reason = ReasonIdle
    /\ sender = SenderIdle
    /\ volumes = VolumesIdle
    /\ search = SearchIdle
    /\ chat = ChatIdle
    /\ handler \in {[HandlerIdle EXCEPT !.pc = "received", !.received = c,
                                        !.content = c, !.own = o,
                                        !.has_reference = r[1], !.reply_to_bot = r[2],
                                        !.mentioned = m] :
                       c \in Contents, o \in BOOLEAN, m \in BOOLEAN,
                       r \in {<<FALSE, FALSE>>, <<TRUE, FALSE>>, <<TRUE, TRUE>>}}

HandlerNext ==
    \/ OnMessage
    \/ \E outcome \in {"valid", "invalid", "raise"} : OnMessageGetContext(outcome)
    \/ \E outcome \in {"command_succeeded", "command_failed", "raise"} :
           OnMessageInvoke(outcome)
    \/ \E raised \in BOOLEAN : OnMessageReply(raised)

(***************************************************************************)
(* The lm, sum and vis commands from their chat request on                 *)
(***************************************************************************)

nonChatVars == <<cmdVars, voiceVars, musicVars, sumVars, reasonVars, lastClear,
                 volumes, search, handler>>

ChatCommands == {"lm", "sum", "vis"}

\* the three substitutions that remove the reasoning of the model
StripReasoning(text) ==
    RemoveToken(RemoveToken(RemoveOpenThink(RemoveThinkBlocks(text)), "<think>"),
                "</think>")

\* the cleanup each command applies to the accumulated response: lm removes
\* the reasoning, keeps what follows the last answer marker and drops the
\* boxed wrapper; sum removes the reasoning and the boxed wrapper; vis only
\* removes the reasoning and does not strip
ChatCleanup(command, text) ==
    IF command = "lm"
    THEN StrStrip(RemoveToken(AfterMarkers(StripReasoning(text), Markers), "boxed"))
    ELSE IF command = "sum"
    THEN StrStrip(RemoveToken(StripReasoning(text), "boxed"))
    ELSE StripReasoning(text)

NoticeEmptySummary == "Empty summary returned."

NoticeEmptyAnalysis == "Empty analysis response from vision model."

NoticeEmptyOf(command) ==
    IF command = "lm" THEN NoticeEmptyResponse
    ELSE IF command = "sum" THEN NoticeEmptySummary
    ELSE NoticeEmptyAnalysis

\* if not accumulated: return ..., tested on the response as received; the
\* commands make no test between the cleanup and the calls of _remember
EmptyBeforeRemember(response, cleaned) == response = <<>>

\* the text remembered as the user's turn
ChatMemoryInput(command) ==
    IF command = "lm" THEN <<"prompt">>
    ELSE IF command = "sum" THEN <<"url">>
    ELSE <<"Visual analysis of ", "media", ": ", "prompt">>

\* what the command passes to ctx.send: sum and vis use the limited sender,
\* lm sends every 1900-character chunk in a code fence
ChatSent(command, cleaned) ==
    IF command = "lm"
    THEN [i \in 1..ChunkCount(Len(cleaned)) |-> Fenced(ChunkText(Len(cleaned))[i])]
    ELSE SendLimitedResult(Len(cleaned)).delivered

\* the streamed response has been accumulated (or the request failed): the
\* emptiness test, the cleanup, the answer to the user, the two turns
\* remembered and the last context
ChatRespond(response, failed) ==
    /\ chat.pc = "requested"
    /\ LET cleaned == ChatCleanup(chat.command, response)
           userTurn == StoredTurn("user", [str |-> TRUE,
                                           text |-> ChatMemoryInput(chat.command)])
           botTurn == StoredTurn("assistant", [str |-> TRUE, text |-> cleaned])
       IN  IF failed
           THEN /\ chat' = [chat EXCEPT !.pc = "done", !.outcome = "failed"]
                /\ UNCHANGED <<memVars, userContext>>
           ELSE IF EmptyBeforeRemember(response, cleaned)
           THEN /\ chat' = [chat EXCEPT !.pc = "done", !.outcome = "notice",
                                        !.response = response,
                                        !.notices = <<NoticeEmptyOf(chat.command)>>]
                /\ UNCHANGED <<memVars, userContext>>
           ELSE /\ chat' = [chat EXCEPT !.pc = "done", !.outcome = "responded",
                                        !.response = response,
                                        !.accumulated = cleaned,
                                        !.sent = ChatSent(chat.command, cleaned)]
                /\ userMemory' = MemoryWith(MemoryWith(userMemory, chat.author,
                                                       userTurn),
                                            chat.author, botTurn)
                /\ calls' = CallsWith(CallsWith(calls, chat.author, userTurn),
                                      chat.author, botTurn)
                /\ userContext' = [u \in DOMAIN userContext \cup {chat.author} |->
                                      IF u = chat.author THEN cleaned
                                      ELSE userContext[u]]
    /\ UNCHANGED nonChatVars

ChatInit ==
    /\ CmdInit /\ MemInit /\ VoiceInit /\ MusicInit /\ SumInit
    /\ reason = ReasonIdle
    /\ sender = SenderIdle
    /\ volumes = VolumesIdle
    /\ search = SearchIdle
    /\ handler = HandlerIdle
    /\ chat \in {[ChatIdle EXCEPT !.pc = "requested", !.command = c, !.author = 1] :
                    c \in ChatCommands}

ChatNext ==
    \/ \E response \in Responses : ChatRespond(response, FALSE)
    \/ ChatRespond(<<>>, TRUE)

Init == CmdInit /\ MemInit /\ VoiceInit /\ MusicInit /\ SumInit /\ reason = ReasonIdle
        /\ sender = SenderIdle /\ RestInit

Next == CmdNext

Spec == Init /\ [][Next]_vars

SpecMem == Init /\ [][MemNext]_vars

SpecVoice == Init /\ [][VoiceNext]_vars

SpecJoin == JoinInit /\ [][JoinNext]_vars

SpecMusic == Init /\ [][MusicNext]_vars

SpecSum == Init /\ [][SumNext]_vars

SpecContext == Init /\ [][ContextNext]_vars

SpecReasonMode == ReasonModeInit /\ [][ReasonModeNext]_vars

SpecReason == ReasonInit /\ [][ReasonNext]_vars

SpecSend == SendInit /\ [][SendNext]_vars

SpecVolume == Init /\ [][VolumeNext]_vars

SpecSearch == SearchInit /\ [][SearchNext]_vars

SpecHandler == HandlerInit /\ [][HandlerNext]_vars

SpecChat == ChatInit /\ [][ChatNext]_vars

\* the player thread calls every after callback, and the event loop runs
\* every task it has been given
FairSpecMusic ==
    /\ SpecMusic
    /\ WF_vars(\E i \in 1..MaxPending : AfterPlaying(i))
    /\ WF_vars(\E g \in MusicGuilds, srcOk \in BOOLEAN : PlayNextTask(g, srcOk))

\* the event loop runs every ready task and every command body terminates
FairSpec ==
    /\ Spec
    /\ \A c \in Cmds : WF_vars(LockAcquired(c))
    /\ \A c \in Cmds : WF_vars(CommandReturns(c) \/ CommandRaises(c))
    /\ \A c \in Cmds : WF_vars(OnCommandError(c))

(***************************************************************************)
(* Claims about the command lock                                           *)
(***************************************************************************)

Executing == {c \in Cmds : pc[c] = "body"}

\* C1: command serialization: at no time are two command bodies executing;
\* a command starts its body only after the running one has completed and
\* released the lock.
C1_OneBodyAtATime == Cardinality(Executing) <= 1

\* C2: whenever a command finishes, by normal return or by an exception, the
\* command lock is released by the time its after-invoke hook has run, and a
\* command waiting for the lock eventually starts its body.
C2_LockReleasedAfterFinish ==
    /\ [][\A c \in Cmds :
            (pc[c] = "body" /\ pc'[c] \in {"done", "error"}) => ~lockLocked']_vars
    /\ \A c \in Cmds : (pc[c] = "waiting") ~> (pc[c] = "body")

\* a command that queued behind a raising command got the lock and ran
C2_Witness ==
    \E a, b \in Cmds :
        /\ a # b
        /\ pc[a] = "done" /\ err[a] = "CommandInvokeError"
        /\ pc[b] = "done" /\ err[b] = NoError
        /\ ~lockLocked

(***************************************************************************)
(* Claims about the memory store                                           *)
(***************************************************************************)

LastN(s, n) == IF Len(s) > n THEN SubSeq(s, Len(s) - n + 1, Len(s)) ELSE s

\* C3: for every user the stored turn list never exceeds 2 x MEMORY_TURNS = 10
\* entries and holds the most recent turns in their original order (oldest
\* evicted first); after 12 calls it is exactly the last 10.
C3_MemoryBound ==
    \A u \in DOMAIN userMemory :
        /\ Len(userMemory[u]) <= 10
        /\ userMemory[u] = LastN(calls[u], 2 * MEMORY_TURNS)
        /\ Len(calls[u]) = 12 => userMemory[u] = SubSeq(calls[u], 3, 12)

\* a user has made 12 remember calls and holds 10 turns
C3_Witness ==
    \E u \in DOMAIN userMemory :
        Len(calls[u]) = 12 /\ Len(userMemory[u]) = 10

(***************************************************************************)
(* Claims about the voice connection handler                               *)
(***************************************************************************)

\* the invocations whose channel.connect is awaited, per guild
InFlight(g) ==
    {c \in Cmds : /\ pc[c] = "body"
                  /\ ctx[c].guild = g
                  /\ jpc[c] \in {"connecting", "raw_connecting"}}

\* C4: the per-guild voice lock prevents concurrent connection attempts to the
\* same guild: at most one connection attempt for a guild is in flight at any
\* time.
C4_OneAttemptInFlight == \A g \in Guilds : Cardinality(InFlight(g)) <= 1

IsNonDecreasing(s) == \A i, j \in 1..Len(s) : i <= j => s[i] <= s[j]

\* C5: while every attempt of a join has been classified session-invalid, the
\* delay after attempt i is 3 * i, so the delays never decrease; such a join
\* reports final failure after exactly 5 attempts.
C5_RetryCeiling ==
    \A c \in Cmds :
        joinLog[c].all4006 =>
            /\ \A i \in 1..Len(joinLog[c].delays) : joinLog[c].delays[i] = 3 * i
            /\ IsNonDecreasing(joinLog[c].delays)
            /\ (joinLog[c].returned = "False" /\ joinLog[c].report = "persistent_4006")
                   => /\ joinLog[c].attempts = 5
                      /\ joinLog[c].delays = <<3, 6, 9, 12>>

\* a join failed for good after session-invalid errors only
C5_Witness ==
    \E c \in Cmds :
        /\ joinLog[c].all4006
        /\ joinLog[c].returned = "False"
        /\ joinLog[c].report = "persistent_4006"
        /\ joinLog[c].cleanups = 5

\* C6: a permission error is never retried: the step that handles a result
\* classified as a permission error makes no further attempt, reports the
\* missing permissions and returns failure.
C6_PermissionNotRetried ==
    [][\A c \in Cmds :
          (jpc[c] = "classified" /\ result[c] = "permission_error")
              => /\ jpc'[c] = "returned"
                 /\ joinLog'[c].returned = "False"
                 /\ joinLog'[c].report = "missing_permissions"
                 /\ joinLog'[c].attempts = joinLog[c].attempts
                 /\ joinLog'[c].delays = joinLog[c].delays]_vars

\* a join gave up on a permission error raised by a later connection attempt
C6_Witness ==
    \E c \in Cmds :
        /\ jpc[c] = "returned"
        /\ joinLog[c].report = "missing_permissions"
        /\ joinLog[c].attempts \in 2..4

\* the text matches none of the four specific keyword lists
Unclassified(msg) ==
    LET m == LowerMsg(msg)
    IN  /\ ~AnyKeyword(m, SessionKeywords)
        /\ ~AnyKeyword(m, StateKeywords)
        /\ ~AnyKeyword(m, PermissionKeywords)
        /\ ~AnyKeyword(m, GatewayKeywords)

\* C7 as stated: any connection error that matches no specific classification
\* and whose text contains a voice-related keyword is treated as the
\* session-invalid condition.
C7_AnyVoiceErrorIs4006 ==
    \A c \in Cmds :
        (/\ jpc[c] = "classified"
         /\ lastError[c].type \in {"ClientException", "Exception"}
         /\ Unclassified(lastError[c].msg)
         /\ AnyKeyword(LowerMsg(lastError[c].msg), VoiceKeywords))
            => result[c] = "4006_error"

\* C7 amended: an error that is neither a client exception nor a timeout and
\* whose text contains a voice-related keyword is treated as the
\* session-invalid condition, and every result so classified goes through the
\* session-invalid cleanup; a client exception matching no specific
\* classification is a regular failure.
C7_UnexpectedVoiceErrorIs4006 ==
    /\ [](\A c \in Cmds :
            jpc[c] = "classified" =>
                /\ (/\ lastError[c].type = "Exception"
                    /\ AnyKeyword(LowerMsg(lastError[c].msg), VoiceKeywords))
                       => result[c] = "4006_error"
                /\ (/\ lastError[c].type = "ClientException"
                    /\ Unclassified(lastError[c].msg))
                       => result[c] = "None")
    /\ [][\A c \in Cmds :
            (jpc[c] = "classified" /\ result[c] = "4006_error")
                => /\ joinLog'[c].cleanups = joinLog[c].cleanups + 1
                   /\ voiceClient'[ctx[c].guild] = NoChannel]_vars

\* an unexpected error with a voice keyword was classified session-invalid
C7_Witness ==
    \E c \in Cmds :
        /\ jpc[c] = "classified"
        /\ lastError[c] = [type |-> "Exception", msg |-> <<"Voice", "handshake", "failed">>]
        /\ result[c] = "4006_error"

(***************************************************************************)
(* Claims about the music scheduler                                        *)
(***************************************************************************)

\* C8: when a song finishes, the completion callback schedules the next
\* play-next task, and with loop mode enabled it first puts the song that
\* just finished back at the front of the guild's queue.
C8_LoopReplaysFinishedSong ==
    [][\A i \in 1..Len(ended), g \in MusicGuilds :
          (/\ last'[1] = "AfterPlaying"
           /\ ended' = RemoveAt(ended, i)
           /\ ended[i].guild = g
           /\ ended[i].cause = "finished")
          => /\ tasks' = tasks + 1
             /\ LoopMode(g) => QueueOf(g)' = <<ended[i].song>> \o QueueOf(g)]_vars

MusicStopped(g) ==
    /\ QueueOf(g) = <<>>
    /\ CurrentSong(g) = NoSong
    /\ player[g].song = NoSong

\* C11: the stop command leaves the guild's queue empty and its current song
\* absent, and the completion callback (and the play-next task that the
\* callback schedules) leaves them so.
C11_StopClearsAndStaysCleared ==
    [][\A g \in MusicGuilds :
          /\ last'[1] = "StopMusic" => MusicStopped(g)'
          /\ (MusicStopped(g) /\ last'[1] \in {"AfterPlaying", "PlayNextTask"})
             => MusicStopped(g)']_vars

\* reached: in loop mode, the callback of a player ended by stop has run
\* and the queue and the current song are still cleared
C11_Witness ==
    \E g \in MusicGuilds :
        /\ last = <<"AfterPlaying", "stopped">>
        /\ LoopMode(g)
        /\ MusicStopped(g)
        /\ tasks >= 1

SumBodies == {c \in Cmds : pc[c] = "body" /\ ctx[c].command = "sum"}

\* C13: at most one execution of the sum command's body is in progress at
\* any time; a second invocation does not start its body before the first
\* one has finished.
C13_OneSumBody == Cardinality(SumBodies) <= 1

\* reached: one sum body is running, a second sum invocation is queued on the
\* guard, and the command lock has been released under the running body
C13_Witness ==
    \E a, b \in Cmds :
        /\ a \in SumBodies
        /\ ctx[b].command = "sum" /\ pc[b] = "sum_waiting"
        /\ ~lockLocked

(***************************************************************************)
(* Claims about clearcontext                                               *)
(***************************************************************************)

\* C14: clearcontext is open for self and owner-only for other users: a
\* non-owner who names another user changes neither memory nor context, and
\* an allowed invocation removes both the memory and the context of its
\* target and of nobody else.
C14_ClearContextGuard ==
    [][\A a \in UserIds, t \in UserIds \cup {NoUserId} :
          (lastClear'.author = a /\ lastClear'.user_id = t)
          => IF t # NoUserId /\ t # a /\ a \notin OwnerIds
             THEN /\ lastClear'.reply = "denied"
                  /\ UNCHANGED <<userMemory, userContext>>
             ELSE LET target == IF t # NoUserId THEN t ELSE a
                  IN  /\ lastClear'.reply \in {"cleared_own", "cleared_other"}
                      /\ target \notin DOMAIN userMemory'
                      /\ target \notin DOMAIN userContext'
                      /\ \A u \in UserIds \ {target} :
                            /\ u \in DOMAIN userMemory' <=> u \in DOMAIN userMemory
                            /\ u \in DOMAIN userMemory => userMemory'[u] = userMemory[u]
                            /\ u \in DOMAIN userContext' <=> u \in DOMAIN userContext
                            /\ u \in DOMAIN userContext
                               => userContext'[u] = userContext[u]]_vars

\* reached: a non-owner has named a user who has memory and context, was
\* refused, and that user still has both
C14_Witness ==
    \E a \in UserIds \ OwnerIds : \E t \in UserIds \ {a} :
        /\ lastClear = [author |-> a, user_id |-> t, reply |-> "denied"]
        /\ t \in DOMAIN userMemory /\ userMemory[t] # <<>>
        /\ t \in DOMAIN userContext

(***************************************************************************)
(* Claims about the reason command                                         *)
(***************************************************************************)

\* the flag is one of the blank-separated words of the prompt
HasFlag(prompt, flag) ==
    \E i \in 1..(Len(prompt) - Len(flag) + 1) :
        /\ SubSeq(prompt, i, i + Len(flag) - 1) = flag
        /\ i = 1 \/ prompt[i - 1] = " "
        /\ i + Len(flag) - 1 = Len(prompt) \/ prompt[i + Len(flag)] = " "

\* C15: the reason command selects its mode by precedence: attachments ->
\* visual analysis; else -s present -> search mode; else -m present ->
\* reply-context mode; else standard mode.  In particular a prompt without
\* attachments in which both -s and -m are present runs search mode.
C15_BothFlagsRunSearch ==
    (/\ reason.mode # "none"
     /\ ~reason.has_attachments
     /\ HasFlag(reason.prompt, FlagS)
     /\ HasFlag(reason.prompt, FlagM))
    => reason.mode = "search"

\* the user turn the last successful response recorded
RecordedUserTurn == calls[reason.author][Len(calls[reason.author]) - 1]

\* C16: after a successful reason response the user turn recorded in memory
\* is the pre-augmentation prompt (the typed question, before reply context
\* or search results are added), in every mode including -m.
C16_RecordsTypedQuestion ==
    (reason.pc = "done" /\ reason.outcome = "responded")
    => /\ RecordedUserTurn.role = "user"
       /\ RecordedUserTurn.content = FinalPromptPlain(reason.mode, reason.cleaned)

\* C17: in -s mode, when the search returns nothing and the search terms are
\* longer than 50 characters, the command retries once with the first 3
\* words of the terms before it gives up.
C17_SearchModeRetriesSimplified ==
    (/\ reason.mode = "search"
     /\ reason.searches # <<>>
     /\ ~reason.searches[1].data
     /\ TermsLen(reason.search_terms) > SimplifyAbove)
    => /\ Len(reason.searches) = 2
       /\ reason.searches[2].terms = FirstWords(reason.search_terms, SimplifiedWords)

\* C18: a response that is empty after the cleanup is never sent blank: no
\* response message is sent, nothing is remembered, and the user receives a
\* notice that the response was empty.
C18_EmptyResponseGetsNotice ==
    (/\ reason.pc = "done"
     /\ reason.outcome # "none"
     /\ reason.searches # <<>> \/ reason.mode = "standard"
     /\ reason.notices # <<NoticeRequestFailed>>
     /\ StrStrip(Cleanup(reason.response)) = <<>>)
    => /\ reason.sent = <<>>
       /\ reason.notices \in {<<NoticeEmptyResponse>>, <<NoticeEmptyAfterCleanup>>}
       /\ userMemory = <<>>
       /\ userContext = <<>>

\* a response of thinking only was answered with the notice
C18_Witness ==
    /\ reason.pc = "done"
    /\ reason.response = <<"<think>", "x", "</think>">>
    /\ reason.accumulated = <<>>
    /\ reason.notices = <<NoticeEmptyAfterCleanup>>
    /\ reason.sent = <<>>

(***************************************************************************)
(* Claims about the limited sender                                         *)
(***************************************************************************)

\* the chunk of an unbounded split of a text of n characters
UnboundedChunk(n, i) == ChunkText(n)[i]

\* C19 as stated: a 5000-character response chunked at 1900 characters with
\* a 5-message cap produces exactly 5 chunks, the 5th being chunks 5 and 6 of
\* the unbounded split separated by a newline.
C19_FiveThousandGivesFive ==
    (sender.pc = "returned" /\ sender.n = 5000)
    => /\ Len(sender.contents) = 5
       /\ sender.contents[5] = Fenced(UnboundedChunk(5000, 5) \o <<Newline>>
                                      \o UnboundedChunk(5000, 6))

\* C19, amended: a 5000-character response chunked at 1900 characters
\* produces exactly 3 chunks, of 1900, 1900 and 1200 characters; a response
\* whose unbounded split has 6 chunks produces exactly 5 chunks with the
\* 5-message cap, the 5th being chunks 5 and 6 of the unbounded split
\* separated by a newline.
C19_SixChunksGiveFive ==
    sender.pc = "returned"
    => /\ sender.n = 5000
          => sender.contents = <<Fenced(<<Slice(1, 1900)>>),
                                 Fenced(<<Slice(1901, 3800)>>),
                                 Fenced(<<Slice(3801, 5000)>>)>>
       /\ ChunkCount(sender.n) = 6
          => /\ Len(sender.contents) = 5
             /\ \A i \in 1..4 : sender.contents[i] = Fenced(UnboundedChunk(sender.n, i))
             /\ sender.contents[5] = Fenced(UnboundedChunk(sender.n, 5) \o <<Newline>>
                                            \o UnboundedChunk(sender.n, 6))

\* a response of 6 chunks has been handed to ctx.send in 5 contents
C19_Witness ==
    /\ sender.pc = "returned"
    /\ sender.n = 5 * ChunkSize + 50
    /\ Len(sender.contents) = 5
    /\ ContentLen(sender.contents[5]) = ChunkSize + 1 + 50 + 6

\* the text slices of the messages, in the order they were sent
RECURSIVE TextSlices(_)
TextSlices(messages) ==
    IF messages = <<>> THEN <<>>
    ELSE SelectSeq(Head(messages), LAMBDA p : p.piece = "text")
         \o TextSlices(Tail(messages))

\* the slices are the text 1..n, in order, with no gap and no overlap
WholeText(slices, n) ==
    /\ n = 0 => slices = <<>>
    /\ n > 0 => /\ slices # <<>>
                /\ slices[1].from = 1
                /\ slices[Len(slices)].to = n
                /\ \A i \in 1..(Len(slices) - 1) : slices[i + 1].from = slices[i].to + 1

\* C20: for any response text the limited sender sends at most 5 messages,
\* and the messages sent contain the whole response text in order with
\* nothing dropped.
C20_WholeTextInFiveMessages ==
    sender.pc = "returned"
    => /\ Len(sender.delivered) <= MaxPosts
       /\ WholeText(TextSlices(sender.delivered), sender.n)

(***************************************************************************)
(* Claims about the volume command                                         *)
(***************************************************************************)

\* C21: the volume command validates the 0-100 range before it changes
\* anything (an out-of-range value leaves the stored volume unchanged) and
\* otherwise stores value/100, so every guild's stored volume is always a
\* number in [0, 1].
C21_VolumeInUnitInterval ==
    /\ [](\A g \in DOMAIN volumes.stored :
             /\ 0 <= volumes.stored[g].num
             /\ volumes.stored[g].num <= volumes.stored[g].den)
    /\ [][(volumes'.last.volume < 0 \/ volumes'.last.volume > 100)
          => /\ volumes'.stored = volumes.stored
             /\ volumes'.source = volumes.source]_volumes
    /\ [][volumes'.last.reply = "set"
          => volumes'.stored[volumes'.last.guild] =
                 [num |-> volumes'.last.volume, den |-> 100]]_volumes

\* the volume 100 was stored and then 101 was refused
C21_Witness ==
    /\ volumes.last.volume = 101
    /\ volumes.last.reply = "range"
    /\ 1 \in DOMAIN volumes.stored
    /\ volumes.stored[1] = [num |-> 100, den |-> 100]

(***************************************************************************)
(* Claims about the search helper                                          *)
(***************************************************************************)

\* the query as the helper hands it to the search interfaces
SearchedQuery == Sanitize(search.query)

\* the calls made to one interface
CallsTo(api) == {i \in 1..Len(search.calls) : search.calls[i].api = api}

C23_ContentRestored ==
    (handler.pc = "done" /\ handler.rewritten)
    => /\ handler.content = handler.received
       /\ handler.outcome \in {"command_succeeded", "command_failed",
                               "context_invalid", "dispatch_raised"}

\* a rewritten message whose dispatch raised has its content back
C23_Witness ==
    /\ handler.pc = "done"
    /\ handler.rewritten
    /\ handler.outcome = "dispatch_raised"
    /\ handler.received = <<"<@id>", " ", "hi">>
    /\ handler.content = handler.received

(***************************************************************************)
(* Claims about the ownership of the command lock                          *)
(***************************************************************************)

\* C24: the after-command hook and the error handler release the command
\* lock only on behalf of the command that acquired it: every step that
\* unlocks the lock is the step in which a command that was running its body
\* leaves it.  An invocation that failed before acquiring the lock, or whose
\* error handler runs after its own release, never unlocks it.
C24_ReleasedByHolderOnly ==
    [][(lockLocked /\ ~lockLocked')
       => \E c \in Cmds : pc[c] = "body" /\ pc'[c] \in {"done", "error"}]_vars

(***************************************************************************)
(* Claims about queued songs, the current song and skip                    *)
(***************************************************************************)

SongsIn(queue) == {queue[i] : i \in 1..Len(queue)}

\* C25: no queued song is lost: a song leaves a guild's queue only by being
\* started (it becomes the song of the guild's player) or by stop or leave,
\* also when a play-next task scheduled by the completion callback
\* interleaves with a play command that starts playback.  A song whose audio
\* source cannot be built is skipped and is not counted as lost.
C25_NoQueuedSongLost ==
    [][\A g \in MusicGuilds :
          \A song \in SongsIn(QueueOf(g)) \ SongsIn(QueueOf(g)') :
              \/ player'[g] = [song |-> song, paused |-> FALSE]
              \/ last'[1] \in {"StopMusic", "LeaveVoice"}
              \/ last'[2] = "failed" /\ CurrentSong(g)' # song]_vars

\* C26: whenever a guild's voice client is playing a song, the guild's
\* current_song is exactly the song being played, never absent and never a
\* different song, also after a failed attempt to start another song.
C26_CurrentSongIsPlayingSong ==
    \A g \in MusicGuilds : IsPlaying(g) => CurrentSong(g) = player[g].song

\* C27: the skip command ends the current song and playback advances to the
\* next queued song: when the callback of a skipped player has run, the song
\* that the play-next task it schedules will start is not the skipped song,
\* also when loop mode is enabled.
C27_SkippedSongNotRestarted ==
    [][\A i \in 1..Len(ended), g \in MusicGuilds :
          (/\ last'[1] = "AfterPlaying"
           /\ ended' = RemoveAt(ended, i)
           /\ ended[i].guild = g
           /\ ended[i].cause = "skipped")
          => /\ tasks' = tasks + 1
             /\ QueueOf(g)' = <<>> \/ Head(QueueOf(g)') # ended[i].song]_vars

(***************************************************************************)
(* Claims about the final report of a failed join                          *)
(***************************************************************************)

\* C29: after all 5 join attempts have failed, the final report states a
\* persistent session-invalid (4006) error only if every failed attempt was
\* classified session-invalid; if any attempt failed with another
\* classification, the mixed-errors advice is shown instead.
C29_Persistent4006OnlyIfAll4006 ==
    \A c \in Cmds :
        (joinLog[c].returned = "False" /\ joinLog[c].attempts = MaxAttempts
            /\ joinLog[c].report \in {"persistent_4006", "mixed_errors"})
        => (joinLog[c].report = "persistent_4006" <=> joinLog[c].all4006)

(***************************************************************************)
(* Claims about the length of the limited sender's messages                *)
(***************************************************************************)

\* C30: every message the limited sender passes to ctx.send is within the
\* platform's 2000-character message limit, for a response text of any
\* length.
C30_EveryContentWithinLimit ==
    sender.pc = "returned"
    => \A i \in 1..Len(sender.contents) :
           ContentLen(sender.contents[i]) <= MAX_MESSAGE_LENGTH

(***************************************************************************)
(* Claims about empty responses of lm, sum and vis                         *)
(***************************************************************************)

\* C28: no command records an empty assistant turn in a user's memory or
\* sets an empty last-context string: when the model response is empty after
\* the cleanup, the user's memory and last context are left unchanged.
C28_NoEmptyAssistantTurn ==
    /\ \A u \in DOMAIN userMemory :
          \A i \in 1..Len(userMemory[u]) :
              userMemory[u][i].role = "assistant" => userMemory[u][i].content # <<>>
    /\ \A u \in DOMAIN userContext : userContext[u] # <<>>

====
